---------------------------- MODULE Spec2Model ----------------------------
(***************************************************************************)
(* night_worker: the orchestrator loop (src/ralph_loop.py main), the job   *)
(* supervisor (start_job) and the in-container iteration engine            *)
(* (src/worker/worker.py main), with the filesystem they share.            *)
(***************************************************************************)
EXTENDS Integers, Sequences, FiniteSets, TLC

(***************************************************************************)
(* Bounds of the model.                                                    *)
(***************************************************************************)
MaxFiles == 3
MaxMtime == 11

\* Python's None for an optional path: the empty sequence; a path p is <<p>>.
None == <<>>

(***************************************************************************)
(* Text <-> number conversions.  A text is a sequence of characters.       *)
(***************************************************************************)
Digits == <<"0", "1", "2", "3", "4", "5", "6", "7", "8", "9">>

DigitChars == {Digits[i] : i \in 1..10}

DigitVal(c) == (CHOOSE i \in 1..10 : Digits[i] = c) - 1

RECURSIVE FmtInt(_)
FmtInt(n) ==
    IF n < 0 THEN <<"-">> \o FmtInt(0 - n)
    ELSE IF n < 10 THEN <<Digits[n + 1]>>
    ELSE FmtInt(n \div 10) \o <<Digits[(n % 10) + 1]>>

RECURSIVE DigitsVal(_)
DigitsVal(s) ==
    IF Len(s) = 0 THEN 0
    ELSE 10 * DigitsVal(SubSeq(s, 1, Len(s) - 1)) + DigitVal(s[Len(s)])

IsDigits(s) == Len(s) > 0 /\ \A i \in 1..Len(s) : s[i] \in DigitChars

\* int(text): an optional sign and decimal digits; anything else is a ValueError.
ParseInt(s) ==
    IF IsDigits(s) THEN [ok |-> TRUE, val |-> DigitsVal(s)]
    ELSE IF Len(s) > 1 /\ s[1] = "-" /\ IsDigits(Tail(s))
         THEN [ok |-> TRUE, val |-> 0 - DigitsVal(Tail(s))]
    ELSE [ok |-> FALSE, val |-> 0]

(***************************************************************************)
(* Resume policy.  A file "<stem>_v<suf>.zip" of the sink output dir is    *)
(* the record [kind "v", stem, suf]; in suf, "." "p" abbreviates           *)
(* ".partial".  "<stem>.result.zip" is the record of kind "result".        *)
(***************************************************************************)
VName(stem, suf) == [kind |-> "v", stem |-> stem, suf |-> suf]

RName(stem) == [kind |-> "result", stem |-> stem, suf |-> <<>>]

\* the sidecar file <stem>_v<suf>.status of an archive (worker.py line 396)
SName(stem, suf) == [kind |-> "status", stem |-> stem, suf |-> suf]

RECURSIVE FindLatestLoop(_, _, _, _, _)
FindLatestLoop(listing, job_id, i, best_path, best_n) ==
    IF i > Len(listing) THEN [path |-> best_path, n |-> best_n]
    ELSE LET p == listing[i]
             parsed == ParseInt(p.suf)
         IN  IF p.kind # "v" \/ p.stem # job_id \/ ~parsed.ok
             THEN FindLatestLoop(listing, job_id, i + 1, best_path, best_n)
             ELSE IF parsed.val > best_n
             THEN FindLatestLoop(listing, job_id, i + 1, <<p>>, parsed.val)
             ELSE FindLatestLoop(listing, job_id, i + 1, best_path, best_n)

\* a variant that keeps the last integer-suffixed file it meets
RECURSIVE FindLastLoop(_, _, _, _, _)
FindLastLoop(listing, job_id, i, best_path, best_n) ==
    IF i > Len(listing) THEN [path |-> best_path, n |-> best_n]
    ELSE LET p == listing[i]
             parsed == ParseInt(p.suf)
         IN  IF p.kind # "v" \/ p.stem # job_id \/ ~parsed.ok \/ parsed.val <= 0
             THEN FindLastLoop(listing, job_id, i + 1, best_path, best_n)
             ELSE FindLastLoop(listing, job_id, i + 1, <<p>>, parsed.val)

find_latest_version_zip_last(listing, job_id) ==
    FindLastLoop(listing, job_id, 1, None, 0)

find_latest_version_zip(listing, job_id) ==
    FindLatestLoop(listing, job_id, 1, None, 0)

(***************************************************************************)
(* Persistent trigger.  The trigger file is [exists, mtime]; the state     *)
(* file trigger/<name>.mtime is [exists, text].                            *)
(***************************************************************************)
\* f"{value}\n" of a float holding a whole number of clock ticks
write_float_text(value) == FmtInt(value) \o <<".", "0">>

write_float(value) == [exists |-> TRUE, text |-> write_float_text(value)]

read_float(file) ==
    IF ~file.exists THEN 0
    ELSE LET t == file.text
             n == Len(t)
         IN  IF n >= 3 /\ t[n - 1] = "." /\ t[n] = "0"
                /\ ParseInt(SubSeq(t, 1, n - 2)).ok
             THEN ParseInt(SubSeq(t, 1, n - 2)).val
             ELSE IF ParseInt(t).ok THEN ParseInt(t).val
             ELSE 0

\* a variant that compares with >= instead of >
should_fire_ge(persistent_trigger, state_file) ==
    IF ~persistent_trigger.exists THEN FALSE
    ELSE persistent_trigger.mtime >= read_float(state_file)

should_fire_persistent_trigger(persistent_trigger, state_file) ==
    IF ~persistent_trigger.exists THEN FALSE
    ELSE persistent_trigger.mtime > read_float(state_file)

mark_persistent_trigger_handled(persistent_trigger, state_file) ==
    IF ~persistent_trigger.exists THEN state_file
    ELSE write_float(persistent_trigger.mtime)

VARIABLES
    \* find_latest_version_zip applied to a directory listing
    rz_listing, rz_result, rz_pc,
    \* the persistent trigger file, its state file, and a caller of the two
    \* trigger functions
    ptrig, pstate, t_result, t_fresh, handled,
    \* the orchestrator's configuration (environment of main)
    cfg,
    \* the filesystem: the drop folder, the marker dirs of state_dir, the
    \* start trigger file, the sink output dir, the per-job work dirs
    input_dir, running, done, failed, queue, trig, nc_output, work,
    \* per orchestrator loop: the locals of main, the locals of start_job,
    \* the container it launched
    loop, sup, eng,
    \* supervisor runs started so far
    runs,
    \* history: the persistent trigger was touched since the last dispatch;
    \* the start trigger was created since the tick's gate evaluation
    g_touched, g_trigCreated,
    \* sync_iter_logs: the iteration-log files of a work dir, the cursor
    \* dict of one supervisor run, what the last pass did per file, and
    \* the combined log of the sink: per pass that appended bytes, the
    \* names of the files whose bytes it appended, in the order of writing
    lg_files, synced_offsets, lg_last, combined,
    \* one supervisor run seen from its logs: whether the container runs,
    \* has exited, or the final pass is done; per file the byte ranges
    \* <<from, to>> appended to the combined log so far
    logrun,
    \* history of one worker run: whether it passed its startup checks; per
    \* attempted iteration its outcome, the elapsed time and the transient
    \* counter at its start, and the locals after it; whether the budget
    \* guard fired
    hist,
    \* how the post-sync hook of the last supervisor run ended
    hook,
    \* atomic_copy: the content of the files it touches (by path), and its
    \* caller: the position, the calls made, the destination, whether the
    \* destination's directory exists
    fs, ac_pc

resumeVars == <<rz_listing, rz_result, rz_pc>>
trigVars == <<ptrig, pstate, t_result, t_fresh, handled>>
markerVars == <<running, done, failed>>
orchVars == <<cfg, input_dir, running, done, failed, queue, trig, nc_output,
              work, loop, sup, eng, runs, g_touched, g_trigCreated>>
logVars == <<lg_files, synced_offsets, lg_last, combined, logrun>>
histVars == <<hist, hook>>
copyVars == <<fs, ac_pc>>
sideVars == <<logVars, histVars, copyVars>>
vars == <<rz_listing, rz_result, rz_pc, ptrig, pstate, t_result, t_fresh,
          handled, cfg, input_dir, running, done, failed, queue, trig,
          nc_output, work, loop, sup, eng, runs, g_touched, g_trigCreated,
          lg_files, synced_offsets, lg_last, combined, logrun, hist, hook,
          fs, ac_pc>>

(***************************************************************************)
(* The orchestrator's state.  Archives of the drop folder are named by     *)
(* their stem, which is the job id; ArchiveOrder lists the names the model *)
(* uses in the order sorted() gives them ("a.zip" < "a_v1.zip" < "b.zip"). *)
(***************************************************************************)
Loops == {1, 2}

ArchiveOrder == <<"a", "a_v1", "b">>

Stems == {ArchiveOrder[i] : i \in DOMAIN ArchiveOrder}

\* line 807 with the test for "_v" left out
ContainsVNever(stem) == FALSE

\* "_v" in zip_path.name
ContainsV(stem) == stem \in {"a_v1"}

InName(stem) == [kind |-> "in", stem |-> stem, suf |-> <<>>]

\* sorted(input_dir.glob("*.zip"))
sorted_zips(dir) ==
    LET InDir(z) == z \in dir
    IN  SelectSeq(ArchiveOrder, InDir)

\* the order in which a directory scan yields the files of a set
RECURSIVE SetToSeq(_)
SetToSeq(S) ==
    IF S = {} THEN <<>>
    ELSE LET x == CHOOSE y \in S : TRUE
         IN  <<x>> \o SetToSeq(S \ {x})

\* line 241 counting one marker less
running_jobs_count_less == Cardinality(running) - 1

running_jobs_count == Cardinality(running)

NoZip == [dir |-> "", name |-> InName("")]

LoopIdle ==
    [pc |-> "tick", start_armed |-> FALSE, persistent_armed |-> FALSE,
     zips |-> <<>>, idx |-> 0, job_id |-> "", input_zip |-> NoZip,
     version_offset |-> 0, success |-> FALSE, dispatched |-> FALSE,
     marked |-> FALSE]

SupIdle ==
    [rc |-> 0, worker_status |-> "", synced_zips |-> {}, reaped |-> FALSE]

EngIdle ==
    [pc |-> "none", job_id |-> "", iteration |-> 0, attempted |-> 0,
     consecutive_transient_errors |-> 0, status |-> "", stop_reason |-> "",
     elapsed |-> 0, rc |-> 0, version_offset |-> 0, emitted |-> <<>>]

\* a work dir: whether input/input.zip holds the staged archive, the files
\* of <work>/output, the text of <id>.status and the stop_reason of the
\* manifest written last
WorkAbsent ==
    [exists |-> FALSE, input |-> FALSE, output |-> {}, status |-> <<>>,
     stop_reason |-> ""]

ConfigIdle ==
    [strict_single_zip |-> FALSE, strict_allow_versioned_inputs |-> FALSE,
     keep_failed_marker |-> TRUE, stop_loop_on_job_failure |-> FALSE,
     consume_trigger |-> TRUE, trigger_path |-> FALSE,
     persistent_trigger_path |-> FALSE, max_parallel |-> 1,
     keep_work_dir |-> "on_failure", zip_chain_mode |-> FALSE,
     max_iterations |-> 0]

\* the part of the state the orchestrator owns, when no orchestrator runs
OrchIdle ==
    /\ cfg = ConfigIdle
    /\ input_dir = {}
    /\ running = {}
    /\ done = {}
    /\ failed = {}
    /\ queue = {}
    /\ trig = FALSE
    /\ nc_output = {}
    /\ work = [j \in Stems |-> WorkAbsent]
    /\ loop = [l \in Loops |-> LoopIdle]
    /\ sup = [l \in Loops |-> SupIdle]
    /\ eng = [l \in Loops |-> EngIdle]
    /\ runs = 0
    /\ g_touched = FALSE
    /\ g_trigCreated = FALSE

(***************************************************************************)
(* SpecResume: find_latest_version_zip over every listing of up to         *)
(* MaxFiles files of the sink output dir.                                  *)
(***************************************************************************)
ResumeJob == "a"

SinkNames ==
    {VName("a", s) : s \in {<<"0">>, <<"1">>, <<"3">>, <<"7">>, <<"1", "0">>,
                            <<"3", ".", "p">>, <<"-", "1">>}}
    \cup {VName("b", <<"9">>)}

Listings ==
    {l \in UNION {[1..n -> SinkNames] : n \in 0..MaxFiles} :
        \A i, j \in 1..Len(l) : i # j => l[i] # l[j]}

TrigIdle ==
    /\ ptrig = [exists |-> FALSE, mtime |-> 0]
    /\ pstate = [exists |-> FALSE, text |-> <<>>]
    /\ t_result = FALSE
    /\ t_fresh = FALSE
    /\ handled = 0

ResumeIdle ==
    /\ rz_listing = <<>>
    /\ rz_result = [path |-> None, n |-> 0]
    /\ rz_pc = "idle"

\* the iteration logs and the cursor dict when no sync pass is studied
LogNumbers == {1, 2, 10}

\* worker.py line 184: f"iter-{iteration}.log"
LogName(n) == "iter-" \o ToString(n) \o ".log"

LogFiles == {LogName(n) : n \in LogNumbers}

LastIdle ==
    [ran |-> FALSE, prev |-> 0, observed |-> 0, appended |-> 0,
     header |-> FALSE]

LogIdle ==
    /\ lg_files = [f \in LogFiles |-> [size |-> 0, mode |-> "absent"]]
    /\ synced_offsets = [f \in LogFiles |-> 0]
    /\ lg_last = [f \in LogFiles |-> LastIdle]
    /\ combined = <<>>
    /\ logrun = [phase |-> "idle", ranges |-> [f \in LogFiles |-> <<>>]]

\* no worker run is studied
HistIdle ==
    /\ hist = [started |-> FALSE, iters |-> <<>>, guard |-> FALSE]
    /\ hook = "none"

\* the files of atomic_copy when no copy is studied
CopyIdle ==
    /\ fs = <<>>
    /\ ac_pc = [pc |-> "idle", calls |-> 0, dst |-> "", parent |-> FALSE]

SideIdle ==
    /\ LogIdle
    /\ HistIdle
    /\ CopyIdle

InitResume ==
    /\ rz_listing \in Listings
    /\ rz_result = [path |-> None, n |-> 0]
    /\ rz_pc = "call"
    /\ TrigIdle
    /\ OrchIdle
    /\ SideIdle

ApplyFindLatest ==
    /\ rz_pc = "call"
    /\ rz_result' = find_latest_version_zip(rz_listing, ResumeJob)
    /\ rz_pc' = "returned"
    /\ UNCHANGED <<rz_listing, trigVars, orchVars, sideVars>>

NextResume == ApplyFindLatest

SpecResume == InitResume /\ [][NextResume]_vars

Range(f) == {f[i] : i \in DOMAIN f}

\* the N in NRange for which the file <id>_v<N>.zip is in the listing
VersionsIn(listing, job_id, NRange) ==
    {N \in NRange : VName(job_id, FmtInt(N)) \in Range(listing)}

MaxOf(S) == CHOOSE x \in S : \A y \in S : y <= x

ResumeReturns(NRange) ==
    LET Ns == VersionsIn(rz_listing, ResumeJob, NRange)
    IN  IF Ns = {} THEN rz_result = [path |-> None, n |-> 0]
        ELSE rz_result = [path |-> <<VName(ResumeJob, FmtInt(MaxOf(Ns)))>>,
                          n |-> MaxOf(Ns)]

InitTrigger ==
    /\ TrigIdle
    /\ ResumeIdle
    /\ OrchIdle
    /\ SideIdle

TouchPersistent(m) ==
    /\ ~(ptrig.exists /\ m = ptrig.mtime)
    /\ ptrig' = [exists |-> TRUE, mtime |-> m]
    /\ t_fresh' = FALSE
    /\ UNCHANGED <<pstate, t_result, handled, resumeVars, orchVars, sideVars>>

RemovePersistent ==
    /\ ptrig.exists
    /\ ptrig' = [ptrig EXCEPT !.exists = FALSE]
    /\ t_fresh' = FALSE
    /\ UNCHANGED <<pstate, t_result, handled, resumeVars, orchVars, sideVars>>

CallMarkHandled ==
    /\ pstate' = mark_persistent_trigger_handled(ptrig, pstate)
    /\ handled' = IF ptrig.exists THEN ptrig.mtime ELSE handled
    /\ t_fresh' = FALSE
    /\ UNCHANGED <<ptrig, t_result, resumeVars, orchVars, sideVars>>

CallShouldFire ==
    /\ t_result' = should_fire_persistent_trigger(ptrig, pstate)
    /\ t_fresh' = TRUE
    /\ UNCHANGED <<ptrig, pstate, handled, resumeVars, orchVars, sideVars>>

NextTrigger ==
    \/ \E m \in 1..MaxMtime : TouchPersistent(m)
    \/ RemovePersistent
    \/ CallMarkHandled
    \/ CallShouldFire

SpecTrigger == InitTrigger /\ [][NextTrigger]_vars

\* C7: should_fire_persistent_trigger returns false when the trigger file
\* does not exist, true on the first sighting when no state file exists, and
\* after a mark_persistent_trigger_handled that found the trigger it returns
\* true exactly when the trigger's mtime is larger than the mtime it had at
\* that call.
C7_PersistentLatch ==
    t_fresh =>
        /\ t_result = (ptrig.exists /\ ptrig.mtime > handled)
        /\ (~ptrig.exists => t_result = FALSE)
        /\ (ptrig.exists /\ ~pstate.exists => t_result = TRUE)

C7_Witness ==
    /\ t_fresh
    /\ t_result = FALSE
    /\ ptrig.exists
    /\ pstate.exists
    /\ handled = 10
    /\ ptrig.mtime = 9

(***************************************************************************)
(* The orchestrator loop: main of src/ralph_loop.py.                       *)
(***************************************************************************)
MaxTouches == 2
MaxRuns == 2

pureVars == <<rz_listing, rz_result, rz_pc, t_result, t_fresh>>

\* the gate test of a tick: some gate is configured and none is armed
GateClosedAnd(start_armed, persistent_armed) ==
    /\ (cfg.trigger_path \/ cfg.persistent_trigger_path)
    /\ ~(start_armed /\ persistent_armed)

GateClosed(start_armed, persistent_armed) ==
    /\ (cfg.trigger_path \/ cfg.persistent_trigger_path)
    /\ ~(start_armed \/ persistent_armed)

\* the start trigger file after consume_start_trigger_if_needed
consume_start_trigger_if_needed ==
    IF ~cfg.consume_trigger \/ ~cfg.trigger_path \/ ~trig THEN trig ELSE FALSE

\* the start trigger file after the inline consumption of a tick
ConsumeInline(start_armed) ==
    IF start_armed /\ cfg.consume_trigger /\ cfg.trigger_path /\ trig
    THEN FALSE ELSE trig

\* the state file after the mark a dispatch makes, without the call
MarkOnDispatchSkipped(persistent_armed) == pstate

\* the state file after the mark a dispatch makes
MarkOnDispatch(persistent_armed) ==
    IF persistent_armed /\ cfg.persistent_trigger_path
    THEN mark_persistent_trigger_handled(ptrig, pstate)
    ELSE pstate

\* the operator (or a script) creates the start trigger file
CreateStartTrigger ==
    /\ cfg.trigger_path
    /\ ~trig
    /\ trig' = TRUE
    /\ g_trigCreated' = TRUE
    /\ UNCHANGED <<cfg, input_dir, markerVars, queue, nc_output, work, loop,
                   sup, eng, runs, g_touched, ptrig, pstate, handled, pureVars,
                   sideVars>>

\* cron touches the persistent trigger file: its mtime becomes the clock's
CronTouch ==
    /\ cfg.persistent_trigger_path
    /\ ptrig.mtime < MaxTouches
    /\ ptrig' = [exists |-> TRUE, mtime |-> ptrig.mtime + 1]
    /\ g_touched' = TRUE
    /\ UNCHANGED <<cfg, input_dir, markerVars, queue, trig, nc_output, work,
                   loop, sup, eng, runs, g_trigCreated, pstate, handled,
                   pureVars, sideVars>>

\* lines 785-792: evaluate the gates; sleep when gated and not armed
TickGate(l) ==
    /\ loop[l].pc = "tick"
    /\ LET start_armed == cfg.trigger_path /\ trig
           persistent_armed ==
               cfg.persistent_trigger_path
               /\ should_fire_persistent_trigger(ptrig, pstate)
       IN  loop' = [loop EXCEPT
                ![l].start_armed = start_armed,
                ![l].persistent_armed = persistent_armed,
                ![l].dispatched = FALSE,
                ![l].marked = FALSE,
                ![l].pc = IF GateClosed(start_armed, persistent_armed)
                          THEN "tick" ELSE "cap"]
    /\ g_trigCreated' = FALSE
    /\ UNCHANGED <<cfg, input_dir, markerVars, queue, trig, nc_output, work,
                   sup, eng, runs, g_touched, trigVars, resumeVars, sideVars>>

\* lines 794-798 and 858-866: the parallelism cap, the listing of the drop
\* folder, and the empty-queue branch of non-strict mode
TickCap(l) ==
    /\ loop[l].pc = "cap"
    /\ LET zips == sorted_zips(input_dir)
       IN  IF running_jobs_count >= cfg.max_parallel
           THEN /\ loop' = [loop EXCEPT ![l].pc = "tick"]
                /\ trig' = trig
           ELSE IF cfg.strict_single_zip
           THEN /\ loop' = [loop EXCEPT ![l].pc = "strict", ![l].zips = zips]
                /\ trig' = trig
           ELSE IF zips = <<>>
           THEN /\ loop' = [loop EXCEPT ![l].pc = "tick", ![l].zips = zips]
                /\ trig' = ConsumeInline(loop[l].start_armed)
           ELSE /\ loop' = [loop EXCEPT ![l].pc = "for", ![l].zips = zips,
                                        ![l].idx = 1]
                /\ trig' = trig
    /\ UNCHANGED <<cfg, input_dir, markerVars, queue, nc_output, work, sup,
                   eng, runs, g_touched, g_trigCreated, trigVars, resumeVars,
                   sideVars>>

\* lines 800-818: the strict single-zip contract and the resume policy
StrictCheck(l) ==
    /\ loop[l].pc = "strict"
    /\ LET zips == loop[l].zips
           job_id == zips[1]
           latest == find_latest_version_zip(SetToSeq(nc_output), job_id)
       IN  IF Len(zips) = 0
           THEN loop' = [loop EXCEPT ![l].pc = "tick"]
           ELSE IF Len(zips) # 1
           THEN loop' = [loop EXCEPT ![l].pc = "exit_1"]
           ELSE IF ~cfg.strict_allow_versioned_inputs /\ ContainsV(job_id)
           THEN loop' = [loop EXCEPT ![l].pc = "exit_1"]
           ELSE loop' = [loop EXCEPT
                    ![l].pc = "strict_dispatch",
                    ![l].job_id = job_id,
                    ![l].input_zip =
                        IF latest.path # None
                        THEN [dir |-> "nc_output_dir", name |-> latest.path[1]]
                        ELSE [dir |-> "input_dir", name |-> InName(job_id)],
                    ![l].version_offset = latest.n]
    /\ UNCHANGED <<cfg, input_dir, markerVars, queue, trig, nc_output, work,
                   sup, eng, runs, g_touched, g_trigCreated, trigVars,
                   resumeVars, sideVars>>

\* lines 820-823 and 848-856: dispatch in strict mode when below the cap;
\* otherwise consume the start trigger and sleep
StrictDispatch(l) ==
    /\ loop[l].pc = "strict_dispatch"
    /\ IF running_jobs_count < cfg.max_parallel
       THEN /\ runs < MaxRuns
            /\ pstate' = MarkOnDispatch(loop[l].persistent_armed)
            /\ handled' = IF loop[l].persistent_armed /\ ptrig.exists
                          THEN ptrig.mtime ELSE handled
            /\ g_touched' = FALSE
            /\ loop' = [loop EXCEPT ![l].pc = "start_job", ![l].marked = TRUE]
            /\ trig' = trig
       ELSE /\ loop' = [loop EXCEPT ![l].pc = "tick"]
            /\ trig' = ConsumeInline(loop[l].start_armed)
            /\ UNCHANGED <<pstate, handled, g_touched>>
    /\ UNCHANGED <<cfg, input_dir, markerVars, queue, nc_output, work, sup,
                   eng, runs, g_trigCreated, ptrig, pureVars, sideVars>>

\* lines 840-856: after start_job returned in strict mode
StrictAfter(l) ==
    /\ loop[l].pc = "strict_after"
    /\ IF ~loop[l].success /\ cfg.stop_loop_on_job_failure
       THEN /\ trig' = consume_start_trigger_if_needed
            /\ loop' = [loop EXCEPT ![l].pc = "exit_1"]
       ELSE /\ trig' = ConsumeInline(loop[l].start_armed)
            /\ loop' = [loop EXCEPT ![l].pc = "tick"]
    /\ UNCHANGED <<cfg, input_dir, markerVars, queue, nc_output, work, sup,
                   eng, runs, g_touched, g_trigCreated, trigVars, resumeVars,
                   sideVars>>

\* lines 868-877: the head of the for loop over the listed archives
ForNext(l) ==
    /\ loop[l].pc = "for"
    /\ LET idx == loop[l].idx
           job_id == loop[l].zips[idx]
           failed1 == IF job_id \in failed /\ ~cfg.keep_failed_marker
                      THEN failed \ {job_id} ELSE failed
       IN  IF idx > Len(loop[l].zips)
           THEN /\ loop' = [loop EXCEPT ![l].pc = "tick"]
                /\ failed' = failed
           ELSE IF running_jobs_count >= cfg.max_parallel
           THEN /\ loop' = [loop EXCEPT ![l].pc = "tick"]
                /\ failed' = failed
           ELSE /\ failed' = failed1
                /\ IF job_id \in done \/ job_id \in failed1
                   THEN loop' = [loop EXCEPT ![l].idx = idx + 1]
                   ELSE loop' = [loop EXCEPT ![l].pc = "claim",
                                             ![l].job_id = job_id]
    /\ UNCHANGED <<cfg, input_dir, running, done, queue, trig, nc_output,
                   work, sup, eng, runs, g_touched, g_trigCreated, trigVars,
                   resumeVars, sideVars>>

\* claim_job, line 226: os.symlink creates the claim link or finds it
ClaimSymlink(l) ==
    /\ loop[l].pc = "claim"
    /\ IF loop[l].job_id \notin queue
       THEN /\ queue' = queue \cup {loop[l].job_id}
            /\ loop' = [loop EXCEPT ![l].pc = "dispatch"]
       ELSE /\ queue' = queue
            /\ loop' = [loop EXCEPT ![l].pc = "claim_exists"]
    /\ UNCHANGED <<cfg, input_dir, markerVars, trig, nc_output, work, sup,
                   eng, runs, g_touched, g_trigCreated, trigVars, resumeVars,
                   sideVars>>

\* claim_job without the recovery of lines 230-234: an existing link always
\* gives None
ClaimExistsNoRecovery(l) ==
    /\ loop[l].pc = "claim_exists"
    /\ loop' = [loop EXCEPT ![l].pc = "for", ![l].idx = @ + 1]
    /\ UNCHANGED <<cfg, input_dir, markerVars, queue, trig, nc_output, work,
                   sup, eng, runs, g_touched, g_trigCreated, trigVars,
                   resumeVars, sideVars>>

\* claim_job without the test of line 230: an existing link is always
\* taken for stale
ClaimExistsIgnoresRunning(l) ==
    /\ loop[l].pc = "claim_exists"
    /\ loop' = [loop EXCEPT ![l].pc = "claim_unlink"]
    /\ UNCHANGED <<cfg, input_dir, markerVars, queue, trig, nc_output, work,
                   sup, eng, runs, g_touched, g_trigCreated, trigVars,
                   resumeVars, sideVars>>

\* claim_job, lines 228-230 and 237: the link exists; stale unless running
ClaimExists(l) ==
    /\ loop[l].pc = "claim_exists"
    /\ IF loop[l].job_id \notin running
       THEN loop' = [loop EXCEPT ![l].pc = "claim_unlink"]
       ELSE loop' = [loop EXCEPT ![l].pc = "for", ![l].idx = @ + 1]
    /\ UNCHANGED <<cfg, input_dir, markerVars, queue, trig, nc_output, work,
                   sup, eng, runs, g_touched, g_trigCreated, trigVars,
                   resumeVars, sideVars>>

\* claim_job, line 232: unlink the stale link
ClaimUnlink(l) ==
    /\ loop[l].pc = "claim_unlink"
    /\ queue' = queue \ {loop[l].job_id}
    /\ loop' = [loop EXCEPT ![l].pc = "claim_relink"]
    /\ UNCHANGED <<cfg, input_dir, markerVars, trig, nc_output, work, sup,
                   eng, runs, g_touched, g_trigCreated, trigVars, resumeVars,
                   sideVars>>

\* claim_job, lines 233-236: create the link again; an OSError gives None
ClaimRelink(l) ==
    /\ loop[l].pc = "claim_relink"
    /\ IF loop[l].job_id \notin queue
       THEN /\ queue' = queue \cup {loop[l].job_id}
            /\ loop' = [loop EXCEPT ![l].pc = "dispatch"]
       ELSE /\ queue' = queue
            /\ loop' = [loop EXCEPT ![l].pc = "for", ![l].idx = @ + 1]
    /\ UNCHANGED <<cfg, input_dir, markerVars, trig, nc_output, work, sup,
                   eng, runs, g_touched, g_trigCreated, trigVars, resumeVars,
                   sideVars>>

\* lines 880-886: the job is claimed; mark the persistent trigger and call
\* start_job with the drop-folder archive (version_offset defaults to 0)
Dispatch(l) ==
    /\ loop[l].pc = "dispatch"
    /\ runs < MaxRuns
    /\ pstate' = MarkOnDispatch(loop[l].persistent_armed)
    /\ handled' = IF loop[l].persistent_armed /\ ptrig.exists
                  THEN ptrig.mtime ELSE handled
    /\ g_touched' = FALSE
    /\ loop' = [loop EXCEPT
            ![l].pc = "start_job",
            ![l].marked = TRUE,
            ![l].input_zip = [dir |-> "input_dir",
                              name |-> InName(loop[l].job_id)],
            ![l].version_offset = 0]
    /\ UNCHANGED <<cfg, input_dir, markerVars, queue, trig, nc_output, work,
                   sup, eng, runs, g_trigCreated, ptrig, pureVars, sideVars>>

\* line 902 on the exception path: the finally clause releases the claim,
\* then the exception ends the process
ReleaseRaise(l) ==
    /\ loop[l].pc = "raise_release"
    /\ queue' = queue \ {loop[l].job_id}
    /\ loop' = [loop EXCEPT ![l].pc = "crashed"]
    /\ UNCHANGED <<cfg, input_dir, markerVars, trig, nc_output, work, sup,
                   eng, runs, g_touched, g_trigCreated, trigVars, resumeVars,
                   sideVars>>

\* lines 902-910: release the claim; stop the loop on failure if asked to
Release(l) ==
    /\ loop[l].pc = "release"
    /\ queue' = queue \ {loop[l].job_id}
    /\ IF ~loop[l].success /\ cfg.stop_loop_on_job_failure
       THEN /\ trig' = consume_start_trigger_if_needed
            /\ loop' = [loop EXCEPT ![l].pc = "exit_1"]
       ELSE /\ trig' = trig
            /\ loop' = [loop EXCEPT ![l].pc = "for", ![l].idx = @ + 1]
    /\ UNCHANGED <<cfg, input_dir, markerVars, nc_output, work, sup, eng,
                   runs, g_touched, g_trigCreated, trigVars, resumeVars,
                   sideVars>>

(***************************************************************************)
(* The supervisor: start_job of src/ralph_loop.py.                         *)
(***************************************************************************)
\* where start_job returns to: line 840 in strict mode, line 902 otherwise
RetPc == IF cfg.strict_single_zip THEN "strict_after" ELSE "release"

IsPartial(name) ==
    /\ Len(name.suf) >= 2
    /\ name.suf[Len(name.suf) - 1] = "."
    /\ name.suf[Len(name.suf)] = "p"

\* worker.py line 160: the name under which an archive is being written
PartialName(name) == [name EXCEPT !.suf = @ \o <<".", "p">>]

\* the final status file <stem>.status of a job (worker.py line 420)
JName(stem) == [kind |-> "job_status", stem |-> stem, suf |-> <<>>]

\* line 373: name.endswith(".zip")
IsZip(name) == name.kind \notin {"status", "job_status"}

ZipsToSyncAll(local_output, synced_zips) ==
    {zp \in local_output : IsZip(zp) /\ zp \notin synced_zips}

\* sync_output_zips: the files one pass copies to the sink
ZipsToSync(local_output, synced_zips) ==
    {zp \in local_output :
        IsZip(zp) /\ ~IsPartial(zp) /\ zp \notin synced_zips}

\* sync_output_status_files without the final status file of the job
StatusFilesSidecarsOnly(w, job_id) == {sf \in w.output : sf.kind = "status"}

\* sync_output_status_files, line 395: local_output_dir.glob("*.status") of
\* the work dir w of job_id
StatusFiles(w, job_id) ==
    {sf \in w.output : sf.kind = "status"}
    \cup (IF w.status # <<>> THEN {JName(job_id)} ELSE {})

\* worker.py writes f"{status}\n"; lines 611-617 read it back with
\* .strip().lower(); "" stands for None (no status file)
StatusText(status) == <<status, "\n">>

ReadWorkerStatus(text) ==
    IF text = <<>> THEN ""
    ELSE LET Keep(c) == c # "\n" IN SelectSeq(text, Keep)[1]

\* line 621
Success(rc, worker_status) == rc = 0 /\ worker_status \notin {"failed"}

\* _cleanup_work_dir: whether the work dir is removed
RemovesWorkDir(success, keep_work_dir) ==
    IF keep_work_dir = "always" THEN FALSE
    ELSE IF keep_work_dir = "never" THEN TRUE
    ELSE success

\* lines 474-491: provision the work dir, create running/<id>
SJ_Touch(l) ==
    /\ loop[l].pc = "start_job"
    /\ work' = [work EXCEPT ![loop[l].job_id].exists = TRUE]
    /\ running' = running \cup {loop[l].job_id}
    /\ runs' = runs + 1
    /\ sup' = [sup EXCEPT ![l] = SupIdle]
    /\ loop' = [loop EXCEPT ![l].pc = "sj_copy"]
    /\ UNCHANGED <<cfg, input_dir, done, failed, queue, trig, nc_output, eng,
                   g_touched, g_trigCreated, trigVars, resumeVars, sideVars>>

\* lines 502-503 without the touch: no failed marker after a copy error
FailedAfterCopyErrorNever(job_id) == failed

\* lines 502-503: failed/<id> after the input copy raised OSError
FailedAfterCopyError(job_id) ==
    IF cfg.keep_failed_marker THEN failed \cup {job_id} ELSE failed

\* where an exception raised by start_job goes: strict mode has no handler
\* (line 823), the non-strict call runs the finally clause first (line 901)
RaisePc == IF cfg.strict_single_zip THEN "crashed" ELSE "raise_release"

\* lines 493-549: copy the input archive; on OSError fail the job, else
\* launch the container; an OSError of subprocess.Popen (line 544) is not
\* caught and leaves start_job as an exception
SJ_Copy(l) ==
    /\ loop[l].pc = "sj_copy"
    /\ \E step \in {"launched", "copy_failed", "launch_failed"} :
        IF step = "launch_failed"
        THEN /\ loop' = [loop EXCEPT ![l].pc = RaisePc]
             /\ work' = [work EXCEPT ![loop[l].job_id].input = TRUE]
             /\ UNCHANGED <<running, failed, eng>>
        ELSE IF step = "launched"
        THEN /\ eng' = [eng EXCEPT ![l] =
                    [EngIdle EXCEPT !.pc = "loop",
                                    !.job_id = loop[l].job_id,
                                    !.iteration = 1,
                                    !.status = "done",
                                    !.version_offset = loop[l].version_offset]]
             /\ loop' = [loop EXCEPT ![l].pc = "sj_poll"]
             /\ work' = [work EXCEPT ![loop[l].job_id].input = TRUE]
             /\ UNCHANGED <<running, failed>>
        ELSE /\ running' = running \ {loop[l].job_id}
             /\ failed' = FailedAfterCopyError(loop[l].job_id)
             /\ loop' = [loop EXCEPT ![l].pc = RetPc, ![l].success = FALSE,
                                     ![l].dispatched = TRUE]
             /\ UNCHANGED <<eng, work>>
    /\ UNCHANGED <<cfg, input_dir, done, queue, trig, nc_output, sup, runs,
                   g_touched, g_trigCreated, trigVars, resumeVars, sideVars>>

\* lines 558-588: one pass of the poll loop while the container is alive
SJ_Poll(l) ==
    /\ loop[l].pc = "sj_poll"
    /\ eng[l].pc # "exited"
    /\ LET new == ZipsToSync(work[loop[l].job_id].output, sup[l].synced_zips)
       IN  /\ nc_output' = nc_output \cup new
           /\ sup' = [sup EXCEPT ![l].synced_zips = @ \cup new]
    /\ UNCHANGED <<cfg, input_dir, markerVars, queue, trig, work, loop, eng,
                   runs, g_touched, g_trigCreated, trigVars, resumeVars,
                   sideVars>>

\* lines 590-617: the container exited; final sync of the archives and of
\* the *.status files; read the worker status
SJ_Reap(l) ==
    /\ loop[l].pc = "sj_poll"
    /\ eng[l].pc = "exited"
    /\ LET new == ZipsToSync(work[loop[l].job_id].output, sup[l].synced_zips)
           statuses == StatusFiles(work[loop[l].job_id], loop[l].job_id)
       IN  /\ nc_output' = nc_output \cup new \cup statuses
           /\ sup' = [sup EXCEPT ![l].synced_zips = @ \cup new,
                                 ![l].rc = eng[l].rc,
                                 ![l].worker_status =
                                     ReadWorkerStatus(
                                         work[loop[l].job_id].status),
                                 ![l].reaped = TRUE]
    /\ loop' = [loop EXCEPT ![l].pc = "sj_unlink"]
    /\ UNCHANGED <<cfg, input_dir, markerVars, queue, trig, work, eng, runs,
                   g_touched, g_trigCreated, trigVars, resumeVars, sideVars>>

\* line 619
SJ_Unlink(l) ==
    /\ loop[l].pc = "sj_unlink"
    /\ running' = running \ {loop[l].job_id}
    /\ loop' = [loop EXCEPT ![l].pc = "sj_mark"]
    /\ UNCHANGED <<cfg, input_dir, done, failed, queue, trig, nc_output, work,
                   sup, eng, runs, g_touched, g_trigCreated, trigVars,
                   resumeVars, sideVars>>

\* lines 621-666: classify and emit the terminal marker
SJ_Mark(l) ==
    /\ loop[l].pc = "sj_mark"
    /\ LET success == Success(sup[l].rc, sup[l].worker_status)
           job_id == loop[l].job_id
       IN  /\ done' = IF success THEN done \cup {job_id} ELSE done
           /\ failed' = IF success THEN failed
                        ELSE IF cfg.keep_failed_marker
                        THEN failed \cup {job_id}
                        ELSE failed \ {job_id}
           /\ loop' = [loop EXCEPT ![l].pc = "sj_finish",
                                   ![l].success = success]
    /\ UNCHANGED <<cfg, input_dir, running, queue, trig, nc_output, work, sup,
                   eng, runs, g_touched, g_trigCreated, trigVars, resumeVars,
                   sideVars>>

\* what subprocess.run does for the hook command: no command is set; it
\* completes with return code 0; it exits nonzero; it runs into the timeout
\* (TimeoutExpired); the shell cannot be started (OSError)
HookOutcomes ==
    {"no_command", "completed", "nonzero", "timeout", "failed_to_start"}

\* run_post_sync_hook without the handler of lines 433-435
run_post_sync_hook_no_timeout_handler(h) ==
    IF h = "timeout" THEN "raised" ELSE "returned"

\* run_post_sync_hook, lines 402-448: how the call ends for outcome h
run_post_sync_hook(h) ==
    IF h = "no_command" THEN "returned"
    ELSE IF h = "timeout" THEN "returned"
    ELSE IF h = "failed_to_start" THEN "returned"
    ELSE IF h = "nonzero" THEN "returned"
    ELSE "returned"

\* lines 668-685: the hook, the work-dir cleanup, the return; an exception
\* of the hook would leave start_job before the cleanup
SJ_FinishOn(l, h) ==
    /\ loop[l].pc = "sj_finish"
    /\ IF run_post_sync_hook(h) = "raised"
       THEN /\ loop' = [loop EXCEPT ![l].pc = RaisePc]
            /\ UNCHANGED <<work, eng>>
       ELSE /\ work' = IF RemovesWorkDir(loop[l].success, cfg.keep_work_dir)
                       THEN [work EXCEPT ![loop[l].job_id] = WorkAbsent]
                       ELSE work
            /\ eng' = [eng EXCEPT ![l] = EngIdle]
            /\ loop' = [loop EXCEPT ![l].pc = RetPc, ![l].dispatched = TRUE]
    /\ UNCHANGED <<cfg, input_dir, markerVars, queue, trig, nc_output, sup,
                   runs, g_touched, g_trigCreated, trigVars, resumeVars,
                   logVars, copyVars, hist>>

SJ_Finish(l) == \E h \in HookOutcomes : SJ_FinishOn(l, h) /\ UNCHANGED hook

(***************************************************************************)
(* The iteration engine in the container: main of src/worker/worker.py.    *)
(* An iteration's outcome is the assistant's return code, which regex      *)
(* families its log matches, whether the log holds COMPLETE_SIGNAL, and    *)
(* the seconds the iteration took.                                         *)
(***************************************************************************)
MaxTransient == 2
MaxSeconds == 2
SoftStopMargin == 1

ReturnCodes == {0, 1, 124}

Outcomes ==
    [rc : ReturnCodes, rate : BOOLEAN, context : BOOLEAN,
     transient : BOOLEAN, complete : BOOLEAN, dt : 0..1]

ExitReason(rc) == "assistant_exit_" \o ToString(rc)

IterResult(status, reason, hard_stop, cte) ==
    [status |-> status, stop_reason |-> reason, hard_stop |-> hard_stop,
     consecutive_transient_errors |-> cte]

\* worker.py lines 326-372: the classification of one zip-chain iteration
ClassifyB(o, cte) ==
    IF o.rc # 0 /\ o.rate
    THEN IterResult("stopped_rate_limit", "rate_limit_detected", TRUE, cte)
    ELSE IF o.rc # 0 /\ o.context
    THEN IterResult("stopped_context_limit", "context_limit_detected", TRUE,
                    cte)
    ELSE IF o.rc # 0 /\ o.transient
    THEN IF cte + 1 >= MaxTransient
         THEN IterResult("failed", "too_many_transient_errors", TRUE, cte + 1)
         ELSE IterResult("in_progress", "", FALSE, cte + 1)
    ELSE IF o.rc # 0 /\ o.rc # 124
    THEN IterResult("failed", ExitReason(o.rc), TRUE, cte)
    ELSE IF o.complete
    THEN IterResult("done", "complete_signal", TRUE, cte)
    ELSE IterResult("in_progress", "", FALSE, 0)

CapBAlways(r, iteration) ==
    IF iteration = cfg.max_iterations
    THEN IterResult("stopped_iteration_cap", "max_iterations_reached", TRUE,
                    r.consecutive_transient_errors)
    ELSE r

\* worker.py lines 374-381: the last allowed iteration is marked as the cap
CapB(r, iteration) ==
    IF ~r.hard_stop /\ iteration = cfg.max_iterations
    THEN IterResult("stopped_iteration_cap", "max_iterations_reached", TRUE,
                    r.consecutive_transient_errors)
    ELSE r

\* worker.py lines 479-525: the classification of one classic iteration;
\* hard_stop is a break, otherwise the loop goes on with iteration + 1
ClassifyA(o, cte) ==
    IF o.rc # 0
    THEN IF o.rate
         THEN IterResult("stopped_rate_limit", "rate_limit_detected", TRUE, cte)
         ELSE IF o.context
         THEN IterResult("stopped_context_limit", "context_limit_detected",
                         TRUE, cte)
         ELSE IF o.transient
         THEN IF cte + 1 >= MaxTransient
              THEN IterResult("failed", "too_many_transient_errors", TRUE,
                              cte + 1)
              ELSE IterResult("in_progress", "", FALSE, cte + 1)
         ELSE IF o.rc = 124
         THEN IterResult("in_progress", "", FALSE, cte)
         ELSE IterResult("failed", ExitReason(o.rc), TRUE, cte)
    ELSE IF o.complete
    THEN IterResult("done", "complete_signal", TRUE, cte)
    ELSE IterResult("in_progress", "", FALSE, 0)

\* worker.py line 383 with the offset left out
EmitNumberNoOffset(version_offset, iteration) == iteration

\* worker.py line 383: the number in the name of an iteration's archive
EmitNumber(version_offset, iteration) == version_offset + iteration

BudgetExhaustedLate(elapsed) == MaxSeconds - elapsed < SoftStopMargin

\* the budget guard, worker.py lines 271-276 and 459-464
BudgetExhausted(elapsed) == MaxSeconds - elapsed <= SoftStopMargin

NextIterationStuck(iteration, hard_stop) == iteration

\* worker.py lines 415-417 (zip-chain) and 503-525 (classic): a hard stop
\* breaks, anything else goes on with iteration + 1
NextIteration(iteration, hard_stop) ==
    IF hard_stop THEN iteration ELSE iteration + 1

\* worker.py lines 270-417 (chain = TRUE) and 458-525 (chain = FALSE): what
\* one pass of the while loop makes of the engine record e for the outcome o
\* of the assistant's invocation
LoopPass(chain, e, o) ==
    LET r == IF chain
             THEN CapB(ClassifyB(o, e.consecutive_transient_errors),
                       e.iteration)
             ELSE ClassifyA(o, e.consecutive_transient_errors)
    IN  IF e.iteration > cfg.max_iterations
        THEN [e EXCEPT !.pc = "finish"]
        ELSE IF BudgetExhausted(e.elapsed)
        THEN [e EXCEPT !.pc = "finish",
                       !.status = "stopped_rate_limit",
                       !.stop_reason = "soft_budget_guard"]
        ELSE [e EXCEPT
                 !.attempted = @ + 1,
                 !.elapsed = @ + o.dt,
                 !.consecutive_transient_errors =
                     r.consecutive_transient_errors,
                 !.status = IF r.hard_stop THEN r.status ELSE @,
                 !.stop_reason = IF r.hard_stop THEN r.stop_reason ELSE @,
                 !.iteration = NextIteration(@, r.hard_stop),
                 !.emitted =
                     IF chain
                     THEN Append(@, EmitNumber(e.version_offset, e.iteration))
                     ELSE @,
                 !.pc = IF r.hard_stop THEN "finish" ELSE "loop"]

\* worker.py lines 270-417 (zip-chain) and 458-525 (classic): one pass of the
\* while loop for the outcome o of the assistant's invocation
WorkerIterationOn(l, o) ==
    /\ eng[l].pc = "loop"
    /\  LET e == eng[l]
            r == IF cfg.zip_chain_mode
                 THEN CapB(ClassifyB(o, e.consecutive_transient_errors),
                           e.iteration)
                 ELSE ClassifyA(o, e.consecutive_transient_errors)
        IN  IF e.iteration > cfg.max_iterations
            THEN /\ eng' = [eng EXCEPT ![l] = LoopPass(cfg.zip_chain_mode,
                                                       e, o)]
                 /\ work' = work
            ELSE IF BudgetExhausted(e.elapsed)
            THEN /\ eng' = [eng EXCEPT ![l] = LoopPass(cfg.zip_chain_mode,
                                                       e, o)]
                 /\ work' = work
            ELSE /\ eng' = [eng EXCEPT ![l] = LoopPass(cfg.zip_chain_mode,
                                                       e, o)]
                 /\ work' =
                        IF cfg.zip_chain_mode
                        THEN [work EXCEPT
                                ![e.job_id].output = @ \cup
                                    {VName(e.job_id,
                                           FmtInt(EmitNumber(
                                               e.version_offset,
                                               e.iteration))),
                                     SName(e.job_id,
                                           FmtInt(EmitNumber(
                                               e.version_offset,
                                               e.iteration)))},
                                ![e.job_id].stop_reason = r.stop_reason]
                        ELSE work
    /\ UNCHANGED <<cfg, input_dir, markerVars, queue, trig, nc_output, loop,
                   sup, runs, g_touched, g_trigCreated, trigVars, resumeVars,
                   logVars, copyVars>>

WorkerIteration(l) ==
    \E o \in Outcomes : WorkerIterationOn(l, o) /\ UNCHANGED histVars

\* worker.py lines 527-529: the classic mode's cap rule after the loop
CapA(e) ==
    IF e.iteration > cfg.max_iterations /\ e.status = "done"
    THEN [e EXCEPT !.status = "stopped_iteration_cap",
                   !.stop_reason = "max_iterations_reached"]
    ELSE e

\* worker.py lines 419 (chain = TRUE, nothing between the loop and the status
\* file) and 527-529 (chain = FALSE): the engine record after the loop
AfterLoop(chain, e) == IF chain THEN e ELSE CapA(e)

\* worker.py lines 419-422 (zip-chain) and 527-579 (classic): the result
\* archive of the classic mode, the final status file, exit code 0; of the
\* exited process only the return code is left
WorkerFinish(l) ==
    /\ eng[l].pc = "finish"
    /\ LET e == AfterLoop(cfg.zip_chain_mode, eng[l])
       IN  /\ eng' = [eng EXCEPT ![l] = [EngIdle EXCEPT !.pc = "exited",
                                                     !.job_id = e.job_id,
                                                     !.rc = 0]]
           /\ work' = [work EXCEPT
                  ![e.job_id].status = StatusText(e.status),
                  ![e.job_id].output =
                      IF cfg.zip_chain_mode THEN @
                      ELSE @ \cup {RName(e.job_id)},
                  ![e.job_id].stop_reason =
                      IF cfg.zip_chain_mode THEN @ ELSE e.stop_reason]
    /\ UNCHANGED <<cfg, input_dir, markerVars, queue, trig, nc_output, loop,
                   sup, runs, g_touched, g_trigCreated, trigVars, resumeVars,
                   sideVars>>

\* the container ends without the worker finishing (docker fails or the
\* process is killed): a nonzero return code, no status file written
ContainerCrash(l) ==
    /\ eng[l].pc \in {"loop", "finish"}
    /\ eng' = [eng EXCEPT ![l] = [EngIdle EXCEPT !.pc = "exited",
                                                  !.job_id = eng[l].job_id,
                                                  !.rc = 1]]
    /\ UNCHANGED <<cfg, input_dir, markerVars, queue, trig, nc_output, work,
                   loop, sup, runs, g_touched, g_trigCreated, trigVars,
                   resumeVars, sideVars>>

(***************************************************************************)
(* Spec: one orchestrator loop, every configuration of Configs.            *)
(***************************************************************************)
MaxIterations == 2

\* the settings of a run; consume_trigger keeps its default without a
\* start trigger file
Configs ==
    {c \in [strict_single_zip : BOOLEAN,
            strict_allow_versioned_inputs : {FALSE},
            keep_failed_marker : BOOLEAN, stop_loop_on_job_failure : BOOLEAN,
            consume_trigger : BOOLEAN, trigger_path : BOOLEAN,
            persistent_trigger_path : BOOLEAN, max_parallel : {1},
            keep_work_dir : {"on_failure"}, zip_chain_mode : BOOLEAN,
            max_iterations : {MaxIterations}] :
        c.trigger_path \/ c.consume_trigger}

InputDirs == {{}, {"a"}, {"a", "b"}}

InitOrch ==
    /\ cfg \in Configs
    /\ input_dir \in InputDirs
    /\ running = {}
    /\ done = {}
    /\ failed = {}
    /\ queue = {}
    /\ trig = FALSE
    /\ nc_output = {}
    /\ work = [j \in Stems |-> WorkAbsent]
    /\ loop = [l \in Loops |-> LoopIdle]
    /\ sup = [l \in Loops |-> SupIdle]
    /\ eng = [l \in Loops |-> EngIdle]
    /\ runs = 0
    /\ g_touched = FALSE
    /\ g_trigCreated = FALSE

Init ==
    /\ InitOrch
    /\ TrigIdle
    /\ ResumeIdle
    /\ SideIdle

LoopStep(l) ==
    \/ TickGate(l)
    \/ TickCap(l)
    \/ StrictCheck(l)
    \/ StrictDispatch(l)
    \/ StrictAfter(l)
    \/ ForNext(l)
    \/ ClaimSymlink(l)
    \/ Dispatch(l)
    \/ Release(l)
    \/ ReleaseRaise(l)
    \/ SJ_Touch(l)
    \/ SJ_Copy(l)
    \/ SJ_Poll(l)
    \/ SJ_Reap(l)
    \/ SJ_Unlink(l)
    \/ SJ_Mark(l)
    \/ SJ_Finish(l)
    \/ WorkerIteration(l)
    \/ WorkerFinish(l)
    \/ ContainerCrash(l)

Next ==
    \/ LoopStep(1)
    \/ CreateStartTrigger
    \/ CronTouch

Spec == Init /\ [][Next]_vars

(***************************************************************************)
(* Properties of the single loop (Spec).                                   *)
(***************************************************************************)
MarkersOf(j) ==
    (IF j \in running THEN 1 ELSE 0) + (IF j \in done THEN 1 ELSE 0)
    + (IF j \in failed THEN 1 ELSE 0)

\* C1: single-state. In every reachable state a job id is present in at most
\* one of running/<id>, done/<id>, failed/<id>.
C1_SingleState == \A j \in Stems : MarkersOf(j) <= 1

\* the supervisor of loop 1 has returned after the container exited
Returned == loop[1].pc \in {"strict_after", "release"} /\ sup[1].reaped

\* C3: outcome classification and marker emission. When start_job returns
\* after the container exited, it returns true iff rc = 0 and the worker
\* status is not "failed"; running/<id> is absent, done/<id> exists iff the
\* run succeeded, and on failure failed/<id> exists iff keep_failed_marker.
C3_OutcomeMarkers ==
    Returned =>
        LET j == loop[1].job_id
            ok == loop[1].success
        IN  /\ ok = (sup[1].rc = 0 /\ sup[1].worker_status # "failed")
            /\ j \notin running
            /\ (j \in done) = ok
            /\ (~ok => ((j \in failed) = cfg.keep_failed_marker))

\* C4: rate-limit stop, end to end. When the engine ended an iteration with
\* reason rate_limit_detected and exited, the supervisor has placed
\* failed/<id> and not done/<id>.
C4_RateLimitMarksFailed ==
    (/\ loop[1].pc = "sj_finish"
     /\ sup[1].rc = 0
     /\ sup[1].worker_status = "stopped_rate_limit"
     /\ work[loop[1].job_id].stop_reason = "rate_limit_detected")
        => (loop[1].job_id \in failed /\ loop[1].job_id \notin done)

GateConfigured == cfg.trigger_path \/ cfg.persistent_trigger_path

\* the gates as the files are: the start trigger exists; the persistent
\* trigger exists with an mtime above the last handled one
StartArmedNow == cfg.trigger_path /\ trig

PersistentArmedNow ==
    cfg.persistent_trigger_path /\ ptrig.exists /\ ptrig.mtime > handled

\* a step taken at the head of a tick in which no trigger file changes
GateStep == loop[1].pc = "tick" /\ trig' = trig /\ ptrig' = ptrig

\* C5: trigger gating. A tick with some gate configured and none armed ends
\* where it began: no supervisor, no claim, no marker change. An ungated
\* tick, and a tick with either gate armed, goes on to dispatch.
C5_TriggerGating ==
    [][GateStep =>
        IF GateConfigured /\ ~(StartArmedNow \/ PersistentArmedNow)
        THEN /\ loop'[1].pc = "tick"
             /\ UNCHANGED <<markerVars, queue, runs, eng, sup, work>>
        ELSE loop'[1].pc = "cap"]_vars

C5_Witness ==
    /\ loop[1].pc = "cap"
    /\ cfg.trigger_path
    /\ cfg.persistent_trigger_path
    /\ loop[1].start_armed
    /\ ~loop[1].persistent_armed
    /\ ptrig.exists

\* C6: start-trigger consumption. With the start trigger configured and
\* consume_trigger true, a tick that saw the trigger and dispatched a job
\* that succeeded ends with the trigger file deleted, unless the file was
\* created again during the tick.
C6_ConsumedAfterDispatch ==
    (/\ loop[1].pc = "tick"
     /\ loop[1].dispatched
     /\ loop[1].success
     /\ loop[1].start_armed
     /\ cfg.trigger_path
     /\ cfg.consume_trigger
     /\ ~g_trigCreated)
        => ~trig

OnlyPersistent == cfg.persistent_trigger_path /\ ~cfg.trigger_path

DispatchStep ==
    loop[1].pc \in {"dispatch", "strict_dispatch"}
    /\ loop'[1].pc = "start_job"

\* C8: persistent trigger cycle at loop level. With only the persistent
\* trigger configured, a dispatch records the trigger's mtime as last
\* handled; a dispatch happens only in a tick whose trigger was touched
\* since the last recorded dispatch (or later in that same tick); a tick
\* idles while the trigger is not touched again and passes the gate after
\* a touch.
C8_PersistentCycle ==
    [][OnlyPersistent =>
        /\ DispatchStep =>
            /\ read_float(pstate') = ptrig.mtime
            /\ (g_touched \/ loop[1].marked)
        /\ GateStep =>
            loop'[1].pc = IF g_touched THEN "cap" ELSE "tick"]_vars

C8_Witness ==
    /\ OnlyPersistent
    /\ cfg.strict_single_zip
    /\ loop[1].pc = "start_job"
    /\ runs = 1
    /\ ptrig.mtime = 2
    /\ read_float(pstate) = 2
    /\ ~g_touched

\* the versions N >= 1 of job j in the sink
SinkVersions(j) ==
    {n \in 1..(MaxRuns * MaxIterations + 1) :
        VName(j, FmtInt(n)) \in nc_output}

\* C9: zip-chain resume on dispatch. A supervisor is started with the
\* highest-numbered <id>_v<N>.zip of the sink as input and N as offset when
\* the sink holds one, and with the drop-folder archive and offset 0
\* otherwise, in strict and in non-strict mode.
C9_ResumeOnDispatch ==
    loop[1].pc = "start_job" =>
        LET j == loop[1].job_id
            vs == SinkVersions(j)
        IN  IF vs # {}
            THEN /\ loop[1].input_zip =
                        [dir |-> "nc_output_dir",
                         name |-> VName(j, FmtInt(MaxOf(vs)))]
                 /\ loop[1].version_offset = MaxOf(vs)
            ELSE /\ loop[1].input_zip =
                        [dir |-> "input_dir", name |-> InName(j)]
                 /\ loop[1].version_offset = 0

\* C13: terminal jobs are never re-dispatched. The loop never holds a claim
\* on, nor starts a supervisor for, a job whose done/<id> or failed/<id>
\* marker exists.
C13_NoRedispatch ==
    loop[1].pc \in {"dispatch", "strict_dispatch", "start_job"} =>
        loop[1].job_id \notin done \cup failed

\* C14: the supervisor always reaches its final-marker step. No run of
\* start_job returns or raises leaving running/<id> in place.
C14_NoRunLeavesRunning ==
    loop[1].pc \in {"strict_after", "release", "raise_release", "crashed"}
        => loop[1].job_id \notin running

\* C15: job failure isolation. With stop_loop_on_job_failure false nothing
\* in the dispatch path ends the loop (it ends only on a broken strict
\* contract, before any run); with it true the loop exits with code 1 right
\* after the first run that returned failure, with the claim released and
\* the start trigger consumed when consume_trigger is set.
C15_FailureIsolation ==
    /\ ~cfg.stop_loop_on_job_failure =>
        /\ loop[1].pc # "crashed"
        /\ loop[1].pc = "exit_1" => runs = 0
    /\ cfg.stop_loop_on_job_failure =>
        /\ (loop[1].dispatched /\ ~loop[1].success) =>
              loop[1].pc \in {"sj_finish", "release", "strict_after",
                              "exit_1"}
        /\ (loop[1].pc = "exit_1" /\ runs > 0) =>
              /\ ~loop[1].success
              /\ loop[1].job_id \notin queue
              /\ (cfg.consume_trigger /\ ~g_trigCreated) => ~trig

(***************************************************************************)
(* SpecTwoLoops: two orchestrator loops on one host sharing state_dir and  *)
(* input_dir, in non-strict mode (the mode that claims jobs), ungated.     *)
(***************************************************************************)
ConfigsTwoLoops ==
    [strict_single_zip : {FALSE}, strict_allow_versioned_inputs : {FALSE},
     keep_failed_marker : {TRUE}, stop_loop_on_job_failure : {FALSE},
     consume_trigger : {TRUE}, trigger_path : {FALSE},
     persistent_trigger_path : {FALSE}, max_parallel : {1, 2},
     keep_work_dir : {"on_failure"}, zip_chain_mode : {FALSE},
     max_iterations : {1}]

InitTwoLoops ==
    /\ cfg \in ConfigsTwoLoops
    /\ input_dir = {"a"}
    /\ running = {}
    /\ done = {}
    /\ failed = {}
    /\ queue = {}
    /\ trig = FALSE
    /\ nc_output = {}
    /\ work = [j \in Stems |-> WorkAbsent]
    /\ loop = [l \in Loops |-> LoopIdle]
    /\ sup = [l \in Loops |-> SupIdle]
    /\ eng = [l \in Loops |-> EngIdle]
    /\ runs = 0
    /\ g_touched = FALSE
    /\ g_trigCreated = FALSE
    /\ TrigIdle
    /\ ResumeIdle
    /\ SideIdle

TwoLoopStep(l) ==
    \/ TickGate(l)
    \/ TickCap(l)
    \/ ForNext(l)
    \/ ClaimSymlink(l)
    \/ ClaimExists(l)
    \/ ClaimUnlink(l)
    \/ ClaimRelink(l)
    \/ Dispatch(l)
    \/ Release(l)
    \/ ReleaseRaise(l)
    \/ SJ_Touch(l)
    \/ SJ_Copy(l)
    \/ SJ_Poll(l)
    \/ SJ_Reap(l)
    \/ SJ_Unlink(l)
    \/ SJ_Mark(l)
    \/ SJ_Finish(l)
    \/ WorkerIteration(l)
    \/ WorkerFinish(l)
    \/ ContainerCrash(l)

NextTwoLoops == \E l \in Loops : TwoLoopStep(l)

SpecTwoLoops == InitTwoLoops /\ [][NextTwoLoops]_vars

\* loop l has claimed its job and not yet released the claim
HoldsClaim(l) ==
    loop[l].pc \in {"dispatch", "start_job", "sj_copy", "sj_poll",
                    "sj_unlink", "sj_mark", "sj_finish", "release"}

\* C2: claim uniqueness. Two loops never hold a claim on the same job id at
\* the same time, so no job is supervised by two loops at once.
C2_ClaimUniqueness ==
    ~(/\ HoldsClaim(1)
      /\ HoldsClaim(2)
      /\ loop[1].job_id = loop[2].job_id)

(***************************************************************************)
(* SpecStrict: one loop under the strict single-zip contract, over drop    *)
(* folders that keep and that break the contract.                          *)
(***************************************************************************)
ConfigsStrict ==
    [strict_single_zip : {TRUE}, strict_allow_versioned_inputs : BOOLEAN,
     keep_failed_marker : {TRUE}, stop_loop_on_job_failure : {FALSE},
     consume_trigger : {TRUE}, trigger_path : BOOLEAN,
     persistent_trigger_path : BOOLEAN, max_parallel : {1},
     keep_work_dir : {"on_failure"}, zip_chain_mode : {FALSE},
     max_iterations : {1}]

InitStrict ==
    /\ cfg \in ConfigsStrict
    /\ input_dir \in {{}, {"a"}, {"a_v1"}, {"a", "b"}}
    /\ running = {}
    /\ done = {}
    /\ failed = {}
    /\ queue = {}
    /\ trig = FALSE
    /\ nc_output = {}
    /\ work = [j \in Stems |-> WorkAbsent]
    /\ loop = [l \in Loops |-> LoopIdle]
    /\ sup = [l \in Loops |-> SupIdle]
    /\ eng = [l \in Loops |-> EngIdle]
    /\ runs = 0
    /\ g_touched = FALSE
    /\ g_trigCreated = FALSE
    /\ TrigIdle
    /\ ResumeIdle
    /\ SideIdle

StrictLoopStep(l) ==
    \/ TickGate(l)
    \/ TickCap(l)
    \/ StrictCheck(l)
    \/ StrictDispatch(l)
    \/ StrictAfter(l)
    \/ SJ_Touch(l)
    \/ SJ_Copy(l)
    \/ SJ_Poll(l)
    \/ SJ_Reap(l)
    \/ SJ_Unlink(l)
    \/ SJ_Mark(l)
    \/ SJ_Finish(l)
    \/ WorkerIteration(l)
    \/ WorkerFinish(l)
    \/ ContainerCrash(l)

NextStrict ==
    \/ StrictLoopStep(1)
    \/ CreateStartTrigger
    \/ CronTouch

SpecStrict == InitStrict /\ [][NextStrict]_vars

\* the drop folder breaks the strict contract
ContractBroken ==
    \/ Cardinality(input_dir) > 1
    \/ input_dir = {"a_v1"} /\ ~cfg.strict_allow_versioned_inputs

\* the loop's step out of the strict check of a tick
StrictCheckStep == loop[1].pc = "strict" /\ loop'[1].pc # "strict"

\* C11: strict-mode violation is fatal and side-effect free. With more than
\* one archive, or one archive with "_v" in its name while versioned inputs
\* are not allowed, the tick ends in exit code 1 with no supervisor started
\* and no marker, claim link or trigger state changed; with zero archives
\* it sleeps with nothing changed; otherwise it goes on to dispatch.
C11_StrictViolationFatal ==
    [][StrictCheckStep =>
        IF ContractBroken
        THEN /\ loop'[1].pc = "exit_1"
             /\ UNCHANGED <<markerVars, queue, trig, ptrig, pstate, runs,
                            eng, sup, work, nc_output>>
        ELSE IF input_dir = {}
        THEN /\ loop'[1].pc = "tick"
             /\ UNCHANGED <<markerVars, queue, trig, ptrig, pstate, runs,
                            eng, sup, work, nc_output>>
        ELSE loop'[1].pc = "strict_dispatch"]_vars

C11_Witness ==
    /\ loop[1].pc = "exit_1"
    /\ input_dir = {"a_v1"}
    /\ ~cfg.strict_allow_versioned_inputs
    /\ runs = 0
    /\ running \cup done \cup failed = {}

(***************************************************************************)
(* SpecRestart: one loop started after an orchestrator crash that left     *)
(* running markers and claim links behind, ungated, max_parallel 1 or 2.   *)
(* SpecRestartFair adds that the loop keeps taking steps.                  *)
(***************************************************************************)
ConfigsRestart ==
    [strict_single_zip : BOOLEAN, strict_allow_versioned_inputs : {FALSE},
     keep_failed_marker : {TRUE}, stop_loop_on_job_failure : {FALSE},
     consume_trigger : {TRUE}, trigger_path : {FALSE},
     persistent_trigger_path : {FALSE}, max_parallel : {1, 2},
     keep_work_dir : {"on_failure"}, zip_chain_mode : {FALSE},
     max_iterations : {1}]

InitRestart ==
    /\ cfg \in ConfigsRestart
    /\ input_dir \in {{"a"}, {"a", "b"}}
    /\ running \in {S \in SUBSET {"a", "b"} :
                        Cardinality(S) <= cfg.max_parallel}
    /\ done = {}
    /\ failed = {}
    /\ queue \in SUBSET {"a", "b"}
    /\ trig = FALSE
    /\ nc_output = {}
    /\ work = [j \in Stems |-> WorkAbsent]
    /\ loop = [l \in Loops |-> LoopIdle]
    /\ sup = [l \in Loops |-> SupIdle]
    /\ eng = [l \in Loops |-> EngIdle]
    /\ runs = 0
    /\ g_touched = FALSE
    /\ g_trigCreated = FALSE
    /\ TrigIdle
    /\ ResumeIdle
    /\ SideIdle

RestartStep(l) ==
    \/ LoopStep(l)
    \/ ClaimExists(l)
    \/ ClaimUnlink(l)
    \/ ClaimRelink(l)

NextRestart == RestartStep(1)

SpecRestart == InitRestart /\ [][NextRestart]_vars

SpecRestartFair == SpecRestart /\ WF_vars(NextRestart)

\* C12: parallelism cap. The number of running markers never exceeds
\* max_parallel, and no supervisor is started while the count is already at
\* or above max_parallel.
C12_ParallelismCap ==
    /\ Cardinality(running) <= cfg.max_parallel
    /\ loop[1].pc = "start_job" => Cardinality(running) < cfg.max_parallel

C12_Witness ==
    /\ cfg.max_parallel = 2
    /\ running = {"a", "b"}
    /\ loop[1].pc = "sj_poll"
    /\ loop[1].job_id = "a"

\* a step of claim_job
ClaimStep ==
    loop[1].pc \in {"claim", "claim_exists", "claim_unlink", "claim_relink"}
    /\ loop'[1].pc # loop[1].pc

\* C16: stale-claim recovery. With no claim link claim_job creates it and
\* returns the id; with a link and no running marker it removes the link,
\* creates it again and returns the id; with a link and a running marker it
\* returns nothing.
C16_StaleClaimRecovery ==
    [][ClaimStep =>
        LET j == loop[1].job_id
            pc == loop[1].pc
            pc2 == loop'[1].pc
        IN  /\ pc = "claim" /\ j \notin queue =>
                pc2 = "dispatch" /\ queue' = queue \cup {j}
            /\ pc = "claim" /\ j \in queue =>
                pc2 = "claim_exists" /\ queue' = queue
            /\ pc = "claim_exists" /\ j \notin running =>
                pc2 = "claim_unlink" /\ queue' = queue
            /\ pc = "claim_exists" /\ j \in running =>
                pc2 = "for" /\ queue' = queue
            /\ pc = "claim_unlink" =>
                pc2 = "claim_relink" /\ queue' = queue \ {j}
            /\ pc = "claim_relink" =>
                pc2 = "dispatch" /\ queue' = queue \cup {j}
            /\ UNCHANGED <<markerVars, runs>>]_vars

C16_Witness ==
    /\ loop[1].pc = "dispatch"
    /\ loop[1].job_id = "b"
    /\ queue = {"a", "b"}
    /\ running = {"a"}
    /\ runs = 0

\* C17: stale running markers are harmless. When the crash left running/a
\* and a's claim link behind and b is pending, the restarted non-strict
\* loop eventually starts a supervisor for b.
C17_StaleRunningHarmless ==
    (/\ ~cfg.strict_single_zip
     /\ "a" \in running
     /\ "a" \in queue
     /\ "b" \in input_dir
     /\ "b" \notin running)
        => <>(loop[1].pc = "start_job" /\ loop[1].job_id = "b")

(***************************************************************************)
(* SpecSync: the sync passes of one supervisor run next to the worker      *)
(* writing its archives, each first as <name>.partial.zip and then         *)
(* renamed; any copy of a pass may fail.                                   *)
(***************************************************************************)
MaxArchives == 3

SyncJobs == {"a", "b"}

SyncOffsets == {0, 3}

InitSync ==
    /\ \E job \in SyncJobs, off \in SyncOffsets, chain \in BOOLEAN :
        /\ cfg = [ConfigIdle EXCEPT !.zip_chain_mode = chain,
                                    !.max_iterations = MaxArchives]
        /\ input_dir = {job}
        /\ running = {job}
        /\ work = [j \in Stems |->
                      IF j = job THEN [WorkAbsent EXCEPT !.exists = TRUE,
                                          !.input = TRUE]
                      ELSE WorkAbsent]
        /\ loop = [l \in Loops |->
                      IF l = 1
                      THEN [LoopIdle EXCEPT !.pc = "sj_poll", !.job_id = job,
                                            !.version_offset = off]
                      ELSE LoopIdle]
        /\ eng = [l \in Loops |->
                     IF l = 1
                     THEN [EngIdle EXCEPT !.pc = "loop", !.job_id = job,
                                          !.iteration = 1, !.status = "done",
                                          !.version_offset = off]
                     ELSE EngIdle]
    /\ done = {}
    /\ failed = {}
    /\ queue = {}
    /\ trig = FALSE
    /\ nc_output = {}
    /\ sup = [l \in Loops |-> SupIdle]
    /\ runs = 1
    /\ g_touched = FALSE
    /\ g_trigCreated = FALSE
    /\ TrigIdle
    /\ ResumeIdle
    /\ SideIdle

\* the archive the worker writes next: worker.py line 383 (zip-chain) and
\* line 556 (classic, one archive without suffix)
NextArchive(e) ==
    IF cfg.zip_chain_mode
    THEN VName(e.job_id, FmtInt(EmitNumber(e.version_offset, e.iteration)))
    ELSE RName(e.job_id)

MoreArchives(e) ==
    e.iteration <= (IF cfg.zip_chain_mode THEN cfg.max_iterations ELSE 1)

\* write_result_archive, worker.py line 165: zip_dir(result_staging,
\* archive_tmp)
WriteArchiveTmp(l) ==
    /\ eng[l].pc = "loop"
    /\ MoreArchives(eng[l])
    /\ PartialName(NextArchive(eng[l])) \notin work[eng[l].job_id].output
    /\ work' = [work EXCEPT ![eng[l].job_id].output =
                    @ \cup {PartialName(NextArchive(eng[l]))}]
    /\ UNCHANGED <<cfg, input_dir, markerVars, queue, trig, nc_output, loop,
                   sup, eng, runs, g_touched, g_trigCreated, trigVars,
                   resumeVars, sideVars>>

\* write_result_archive, worker.py line 166: archive_tmp.replace(
\* archive_final)
WriteArchiveReplace(l) ==
    /\ eng[l].pc = "loop"
    /\ PartialName(NextArchive(eng[l])) \in work[eng[l].job_id].output
    /\ work' = [work EXCEPT ![eng[l].job_id].output =
                    (@ \ {PartialName(NextArchive(eng[l]))})
                        \cup {NextArchive(eng[l])}]
    /\ eng' = [eng EXCEPT ![l].iteration = @ + 1, ![l].attempted = @ + 1]
    /\ UNCHANGED <<cfg, input_dir, markerVars, queue, trig, nc_output, loop,
                   sup, runs, g_touched, g_trigCreated, trigVars, resumeVars,
                   sideVars>>

\* the container ends, between two archives or in the middle of one
WriterExit(l) ==
    /\ eng[l].pc = "loop"
    /\ eng' = [eng EXCEPT ![l].pc = "exited"]
    /\ UNCHANGED <<cfg, input_dir, markerVars, queue, trig, nc_output, work,
                   loop, sup, runs, g_touched, g_trigCreated, trigVars,
                   resumeVars, sideVars>>

\* sync_output_zips called from the poll loop (line 586): every file the
\* pass selects is copied or, on OSError, left for a later pass
SyncOutputZips(l) ==
    /\ loop[l].pc = "sj_poll"
    /\ eng[l].pc # "exited"
    /\ \E copied \in SUBSET ZipsToSync(work[loop[l].job_id].output,
                                      sup[l].synced_zips) :
        /\ nc_output' = nc_output \cup copied
        /\ sup' = [sup EXCEPT ![l].synced_zips = @ \cup copied]
    /\ UNCHANGED <<cfg, input_dir, markerVars, queue, trig, work, loop, eng,
                   runs, g_touched, g_trigCreated, trigVars, resumeVars,
                   sideVars>>

\* sync_output_zips and sync_output_status_files called after the container
\* exited (lines 604-605)
SyncOutputZipsFinal(l) ==
    /\ loop[l].pc = "sj_poll"
    /\ eng[l].pc = "exited"
    /\ \E copied \in SUBSET ZipsToSync(work[loop[l].job_id].output,
                                      sup[l].synced_zips),
          statuses \in SUBSET StatusFiles(work[loop[l].job_id],
                                          loop[l].job_id) :
        /\ nc_output' = nc_output \cup copied \cup statuses
        /\ sup' = [sup EXCEPT ![l].synced_zips = @ \cup copied,
                              ![l].reaped = TRUE]
    /\ loop' = [loop EXCEPT ![l].pc = "sj_unlink"]
    /\ UNCHANGED <<cfg, input_dir, markerVars, queue, trig, work, eng, runs,
                   g_touched, g_trigCreated, trigVars, resumeVars, sideVars>>

NextSync ==
    \/ WriteArchiveTmp(1)
    \/ WriteArchiveReplace(1)
    \/ WriterExit(1)
    \/ SyncOutputZips(1)
    \/ SyncOutputZipsFinal(1)

SpecSync == InitSync /\ [][NextSync]_vars

\* C18: over any sequence of sync passes, mid-run and final, no file whose
\* name ends in .partial.zip is in the sink output dir or in the set of
\* synced archive names.
C18_PartialExclusion ==
    \A name \in nc_output \cup sup[1].synced_zips :
        ~(Len(name.suf) >= 2 /\ SubSeq(name.suf, Len(name.suf) - 1,
                                       Len(name.suf)) = <<".", "p">>)

\* the final pass ran over an output dir that holds a half-written archive
\* next to a finished one, and copied the finished one
C18_Witness ==
    /\ sup[1].reaped
    /\ \E name \in work[loop[1].job_id].output :
        /\ name.suf # <<>>
        /\ name.suf[Len(name.suf)] = "p"
    /\ sup[1].synced_zips # {}
    /\ nc_output = sup[1].synced_zips


(***************************************************************************)
(* SpecLogSync: the passes of sync_iter_logs of one supervisor run over    *)
(* two iteration logs that grow, shrink and change their permissions       *)
(* between the passes.                                                     *)
(***************************************************************************)
MaxSize == 2

\* the characters of a log's file name after "iter-", up to the dot
LogKey(f) ==
    LET n == CHOOSE n \in LogNumbers : LogName(n) = f
    IN  FmtInt(n) \o <<".">>

\* the code point of a character of such a name
CharCode(c) == IF c = "." THEN 46 ELSE 48 + DigitVal(c)

LexLessByLength(a, b) ==
    IF Len(a) # Len(b) THEN Len(a) < Len(b)
    ELSE a # <<>> /\ CharCode(Head(a)) < CharCode(Head(b))

\* the order of sorted(), line 312: string comparison of the names
RECURSIVE LexLess(_, _)
LexLess(a, b) ==
    IF a = <<>> THEN b # <<>>
    ELSE IF b = <<>> THEN FALSE
    ELSE IF Head(a) = Head(b) THEN LexLess(Tail(a), Tail(b))
    ELSE CharCode(Head(a)) < CharCode(Head(b))

\* sorted(work_logs_dir.glob("iter-*.log")), line 312, were all files there
LogOrder ==
    CHOOSE s \in [1..Cardinality(LogFiles) -> LogFiles] :
        \A i, j \in DOMAIN s : i < j => LexLess(LogKey(s[i]), LogKey(s[j]))

\* "ok"; or stat raises OSError ("nostat"); or stat works and open raises
\* OSError ("noread"); a file not created yet is "absent"
LogModes == {"ok", "nostat", "noread"}

\* the logs of the first two iterations
CursorLogs == {LogName(1), LogName(2)}

InitLogSync ==
    /\ lg_files \in [LogFiles -> [size : 0..MaxSize,
                                  mode : LogModes \cup {"absent"}]]
    /\ \A f \in LogFiles :
        IF f \in CursorLogs THEN lg_files[f].mode # "absent"
        ELSE lg_files[f] = [size |-> 0, mode |-> "absent"]
    /\ synced_offsets = [f \in LogFiles |-> 0]
    /\ lg_last = [f \in LogFiles |-> LastIdle]
    /\ combined = <<>>
    /\ logrun = [phase |-> "idle", ranges |-> [f \in LogFiles |-> <<>>]]
    /\ HistIdle
    /\ CopyIdle
    /\ OrchIdle
    /\ TrigIdle
    /\ ResumeIdle

\* the worker appends to a log
LogGrow(f) ==
    /\ lg_files[f].mode # "absent"
    /\ lg_files[f].size < MaxSize
    /\ lg_files' = [lg_files EXCEPT ![f].size = @ + 1]
    /\ UNCHANGED <<synced_offsets, lg_last, combined, logrun, histVars,
                   copyVars, orchVars, trigVars, resumeVars>>

\* a log is truncated or replaced by a shorter one
LogShrink(f) ==
    /\ lg_files[f].mode # "absent"
    /\ \E n \in 0..MaxSize :
        /\ n < lg_files[f].size
        /\ lg_files' = [lg_files EXCEPT ![f].size = n]
    /\ UNCHANGED <<synced_offsets, lg_last, combined, logrun, histVars,
                   copyVars, orchVars, trigVars, resumeVars>>

\* a log becomes unreadable or readable again
LogChmod(f) ==
    /\ lg_files[f].mode # "absent"
    /\ \E m \in LogModes :
        /\ m # lg_files[f].mode
        /\ lg_files' = [lg_files EXCEPT ![f].mode = m]
    /\ UNCHANGED <<synced_offsets, lg_last, combined, logrun, histVars,
                   copyVars, orchVars, trigVars, resumeVars>>

SkipsFileNever(size, offset) == FALSE

\* line 326
SkipsFile(size, offset) == size <= offset

\* lines 343-346: seek(offset), read() to the end of the file as it is at
\* the time of the read; the number of bytes appended to the combined log
BytesRead(offset, eof) == IF eof > offset THEN eof - offset ELSE 0

\* lines 320-348, one file of the pass: file is its state at the stat, eof
\* its size at the read. The result is the new cursor, what the pass did for
\* the file, and whether open raised OSError, which ends the pass (the
\* callers catch it, lines 571-588 and 599-609). An absent file is not in
\* the glob of line 312.
SyncOneLog(file, offset, eof) ==
    IF file.mode \in {"absent", "nostat"}
    THEN [cursor |-> offset, last |-> LastIdle, raised |-> FALSE]
    ELSE IF SkipsFile(file.size, offset)
    THEN [cursor |-> offset,
          last |-> [ran |-> TRUE, prev |-> offset, observed |-> file.size,
                    appended |-> 0, header |-> FALSE],
          raised |-> FALSE]
    ELSE IF file.mode = "noread"
    THEN [cursor |-> offset,
          last |-> [ran |-> TRUE, prev |-> offset, observed |-> file.size,
                    appended |-> 0, header |-> offset = 0],
          raised |-> TRUE]
    ELSE [cursor |-> file.size,
          last |-> [ran |-> TRUE, prev |-> offset, observed |-> file.size,
                    appended |-> BytesRead(offset, eof),
                    header |-> offset = 0],
          raised |-> FALSE]

\* sync_iter_logs, lines 297-350: one pass over the files in sorted order;
\* a file that is read may have grown since its stat
SyncIterLogsOn ==
    /\ \E eof \in [LogFiles -> 0..MaxSize] :
        /\ \A f \in LogFiles :
            /\ eof[f] >= lg_files[f].size
            /\ lg_files[f].mode # "ok" => eof[f] = lg_files[f].size
        /\ LET res == [f \in LogFiles |->
                          SyncOneLog(lg_files[f], synced_offsets[f], eof[f])]
               reached == [i \in DOMAIN LogOrder |->
                              \A j \in 1..(i - 1) : ~res[LogOrder[j]].raised]
               Idx(f) == CHOOSE i \in DOMAIN LogOrder : LogOrder[i] = f
               wasRead(f) == /\ reached[Idx(f)]
                             /\ res[f].last.ran
                             /\ ~res[f].raised
                             /\ ~SkipsFile(lg_files[f].size,
                                           synced_offsets[f])
               segments == SelectSeq(LogOrder, wasRead)
           IN  /\ synced_offsets' =
                      [f \in LogFiles |->
                          IF reached[Idx(f)] THEN res[f].cursor
                          ELSE synced_offsets[f]]
               /\ lg_last' =
                      [f \in LogFiles |->
                          IF reached[Idx(f)] THEN res[f].last ELSE LastIdle]
               /\ lg_files' =
                      [f \in LogFiles |->
                          IF wasRead(f)
                          THEN [lg_files[f] EXCEPT !.size = eof[f]]
                          ELSE lg_files[f]]
               /\ combined' = IF segments = <<>> THEN combined
                              ELSE Append(combined, segments)
    /\ UNCHANGED <<histVars, copyVars, orchVars, trigVars, resumeVars>>

SyncIterLogs == SyncIterLogsOn /\ UNCHANGED logrun

NextLogSync ==
    \/ \E f \in CursorLogs : LogGrow(f)
    \/ \E f \in CursorLogs : LogShrink(f)
    \/ \E f \in CursorLogs : LogChmod(f)
    \/ SyncIterLogs

SpecLogSync == InitLogSync /\ [][NextLogSync]_vars

\* C19: across the passes of sync_iter_logs of one supervisor run, for every
\* iteration log F the cursor synced_offsets[F] never decreases, also when F
\* shrinks or becomes unreadable; a pass that finds size(F) <= cursor[F]
\* appends nothing for F; a pass that appends for F sets cursor[F] to the
\* size it observed.
C19_CursorMonotonic ==
    [][\A f \in LogFiles :
          /\ synced_offsets'[f] >= synced_offsets[f]
          /\ lg_last'[f].ran =>
                /\ lg_last'[f].observed <= lg_last'[f].prev =>
                      /\ lg_last'[f].appended = 0
                      /\ ~lg_last'[f].header
                      /\ synced_offsets'[f] = lg_last'[f].prev
                /\ lg_last'[f].appended > 0 =>
                      synced_offsets'[f] = lg_last'[f].observed]_vars

\* the last pass found iter-1.log shorter than its cursor and left the
\* cursor alone, and appended the new bytes of iter-2.log
C19_Witness ==
    /\ lg_last["iter-1.log"].ran
    /\ lg_last["iter-1.log"].observed < lg_last["iter-1.log"].prev
    /\ synced_offsets["iter-1.log"] = MaxSize
    /\ lg_last["iter-2.log"].ran
    /\ lg_last["iter-2.log"].prev > 0
    /\ lg_last["iter-2.log"].appended > 0
    /\ synced_offsets["iter-2.log"] = lg_last["iter-2.log"].observed

(***************************************************************************)
(* SpecEngine: one run of the worker inside its container, zip-chain or    *)
(* classic, for every outcome of every iteration, launched with version    *)
(* offset 0 or 3.                                                          *)
(***************************************************************************)
EngineOffsets == {0, 3}

ConfigsEngine ==
    {[ConfigIdle EXCEPT !.zip_chain_mode = chain, !.max_iterations = m] :
        chain \in BOOLEAN, m \in 0..(MaxIterations + 1)}

InitEngine ==
    /\ cfg \in ConfigsEngine
    /\ \E off \in EngineOffsets :
        /\ loop = [l \in Loops |->
                      IF l = 1
                      THEN [LoopIdle EXCEPT !.pc = "sj_poll", !.job_id = "a",
                                            !.version_offset = off]
                      ELSE LoopIdle]
        /\ eng = [l \in Loops |->
                     IF l = 1
                     THEN [EngIdle EXCEPT !.pc = "startup", !.job_id = "a",
                                          !.version_offset = off]
                     ELSE EngIdle]
    /\ input_dir = {"a"}
    /\ running = {"a"}
    /\ work = [j \in Stems |->
                  IF j = "a" THEN [WorkAbsent EXCEPT !.exists = TRUE,
                                          !.input = TRUE]
                  ELSE WorkAbsent]
    /\ done = {}
    /\ failed = {}
    /\ queue = {}
    /\ trig = FALSE
    /\ nc_output = {}
    /\ sup = [l \in Loops |-> SupIdle]
    /\ runs = 1
    /\ g_touched = FALSE
    /\ g_trigCreated = FALSE
    /\ TrigIdle
    /\ ResumeIdle
    /\ SideIdle

\* worker.py lines 252-268: the startup checks of main; SystemExit with a
\* message is exit code 1
WorkerStartup(l) ==
    /\ eng[l].pc = "startup"
    /\ \E check \in {"ok", "no_input_zip", "no_task_prompt"} :
        IF check = "ok"
        THEN /\ eng' = [eng EXCEPT ![l].pc = "loop", ![l].iteration = 1,
                                   ![l].status = "done"]
             /\ hist' = [hist EXCEPT !.started = TRUE]
        ELSE /\ eng' = [eng EXCEPT ![l] =
                        [EngIdle EXCEPT !.pc = "exited",
                                        !.job_id = eng[l].job_id, !.rc = 1]]
             /\ hist' = hist
    /\ UNCHANGED <<cfg, input_dir, markerVars, queue, trig, nc_output, work,
                   loop, sup, runs, g_touched, g_trigCreated, trigVars,
                   resumeVars, logVars, copyVars, hook>>

\* one pass of the worker's loop, recorded in hist when it attempted an
\* iteration
EngineIteration ==
    \E o \in Outcomes :
        /\ WorkerIterationOn(1, o)
        /\ hist' =
              IF eng'[1].attempted > eng[1].attempted
              THEN [hist EXCEPT !.iters =
                       Append(@, [o |-> o, at |-> eng[1].elapsed,
                                  cte |-> eng[1].consecutive_transient_errors,
                                  after |-> [pc |-> eng'[1].pc,
                                             status |-> eng'[1].status,
                                             stop_reason |->
                                                 eng'[1].stop_reason,
                                             cte |-> eng'[1].
                                                 consecutive_transient_errors
                                            ]])]
              ELSE [hist EXCEPT !.guard =
                       eng'[1].stop_reason = "soft_budget_guard"]
        /\ hook' = hook

NextEngine ==
    \/ WorkerStartup(1)
    \/ EngineIteration
    \/ WorkerFinish(1)
    \/ ContainerCrash(1)

SpecEngine == InitEngine /\ [][NextEngine]_vars

\* every invocation of the assistant returns or times out, and the worker
\* process is scheduled
SpecEngineFair ==
    /\ SpecEngine
    /\ WF_vars(WorkerStartup(1))
    /\ WF_vars(EngineIteration)
    /\ WF_vars(WorkerFinish(1))

\* the numbers n for which a file of the given kind, named <id>_v<n>, is in
\* the output dir of the job
NumbersOf(kind) ==
    {n \in 0..(3 + MaxIterations + 2) :
        [kind |-> kind, stem |-> "a", suf |-> FmtInt(n)] \in work["a"].output}

StatusFile == ReadWorkerStatus(work["a"].status)

\* the worker ran to its end (it was not killed)
WorkerExited == eng[1].pc = "exited" /\ eng[1].rc = 0 /\ hist.started

Attempted == Len(hist.iters)

\* C21: in both modes an iteration that exits with rc 0 and whose log
\* contains the COMPLETE_SIGNAL token ends the engine with final status done
\* and stop_reason complete_signal, and no further iteration is attempted
\* after it, also when it is iteration number max_iterations.
C21_CompletionSignal ==
    \A i \in DOMAIN hist.iters :
        (hist.iters[i].o.rc = 0 /\ hist.iters[i].o.complete) =>
            /\ i = Attempted
            /\ eng[1].pc \in {"finish", "exited"}
            /\ eng[1].pc = "finish" =>
                  /\ eng[1].status = "done"
                  /\ eng[1].stop_reason = "complete_signal"
            /\ WorkerExited =>
                  /\ StatusFile = "done"
                  /\ work["a"].stop_reason = "complete_signal"

\* a zip-chain run whose iteration number max_iterations, the second, came
\* back with rc 0 and the token (in a log that also matches the rate-limit
\* family), and which then wrote its status file
C21_Witness ==
    /\ cfg.zip_chain_mode
    /\ cfg.max_iterations = 2
    /\ Attempted = 2
    /\ hist.iters[2].o.rc = 0
    /\ hist.iters[2].o.complete
    /\ hist.iters[2].o.rate
    /\ WorkerExited
    /\ StatusFile = "done"

\* the rules of the classification in the order in which they are stated,
\* for an outcome o and the transient counter cte before the iteration
StatedRule(o, cte) ==
    IF o.rate THEN [hard |-> TRUE, status |-> "stopped_rate_limit", cte |-> 0]
    ELSE IF o.context
    THEN [hard |-> TRUE, status |-> "stopped_context_limit", cte |-> 0]
    ELSE IF o.transient
    THEN IF cte + 1 >= MaxTransient
         THEN [hard |-> TRUE, status |-> "failed", cte |-> cte + 1]
         ELSE [hard |-> FALSE, status |-> "", cte |-> cte + 1]
    ELSE IF o.rc = 124 THEN [hard |-> FALSE, status |-> "", cte |-> 0]
    ELSE IF o.rc # 0 THEN [hard |-> TRUE, status |-> "failed", cte |-> 0]
    ELSE IF o.complete THEN [hard |-> TRUE, status |-> "done", cte |-> 0]
    ELSE [hard |-> FALSE, status |-> "", cte |-> 0]

\* the zip-chain mode marks its last allowed iteration as the cap
CappedIter(i) ==
    hist.iters[i].after.stop_reason = "max_iterations_reached"

\* C22: each iteration is classified by the first applicable rule in the
\* stated order: rate-limit family, then context-limit family (hard stops),
\* then transient family (transient handling), then rc 124 (no failure),
\* then another nonzero rc (failed, hard stop), then COMPLETE_SIGNAL (done,
\* hard stop); the result depends on the log, rc and the transient counter
\* only.
C22_ClassificationPrecedence ==
    \A i \in DOMAIN hist.iters :
        LET x == hist.iters[i]
            want == StatedRule(x.o, x.cte)
        IN  IF want.hard
            THEN /\ x.after.pc = "finish"
                 /\ x.after.status = want.status
            ELSE x.after.pc = "loop" \/ CappedIter(i)

\* an iteration is classified transient: neither rate limit nor context
\* limit, and the transient family matches the log of a failed invocation
ClassifiedTransient(o) == o.rc # 0 /\ ~o.rate /\ ~o.context /\ o.transient

\* the iterations i-MaxTransient+1 .. i exist and were all classified
\* transient
TransientRun(i) ==
    /\ i >= MaxTransient
    /\ \A k \in (i - MaxTransient + 1)..i :
           ClassifiedTransient(hist.iters[k].o)

\* C23: in both modes the engine ends with status failed and reason
\* too_many_transient_errors exactly when MAX_CONSECUTIVE_TRANSIENT_ERRORS
\* iterations in a row are classified transient; an iteration not classified
\* transient, an iteration timeout (rc 124) included, resets the counter to
\* 0; fewer than MAX consecutive transient iterations followed by an
\* iteration emitting COMPLETE_SIGNAL end with status done.
C23_ConsecutiveTransient ==
    \A i \in DOMAIN hist.iters :
        LET x == hist.iters[i]
        IN  /\ (/\ x.after.pc = "finish"
                /\ x.after.status = "failed"
                /\ x.after.stop_reason = "too_many_transient_errors")
                    <=> TransientRun(i)
            /\ (~ClassifiedTransient(x.o) /\ x.after.pc = "loop")
                    => x.after.cte = 0
            /\ (x.o.rc = 0 /\ x.o.complete) => x.after.status = "done"

\* iteration i caused a hard stop: the loop was left for a reason other than
\* the cap
HardStopAt(i) ==
    /\ hist.iters[i].after.pc = "finish"
    /\ hist.iters[i].after.stop_reason # "max_iterations_reached"

\* C24: in both modes, for every max_iterations >= 0, the final status is
\* stopped_iteration_cap with reason max_iterations_reached iff
\* max_iterations iterations were attempted, none of them caused a hard stop
\* and the budget guard did not fire; in zip-chain mode the last emitted
\* archive carries that status.
C24_IterationCap ==
    WorkerExited =>
        LET capped == /\ Attempted = cfg.max_iterations
                      /\ \A i \in DOMAIN hist.iters : ~HardStopAt(i)
                      /\ ~hist.guard
        IN  /\ StatusFile = "stopped_iteration_cap" <=> capped
            /\ (capped /\ (cfg.zip_chain_mode => Attempted > 0)) =>
                   work["a"].stop_reason = "max_iterations_reached"

\* C25: in both modes the number of attempted iterations never exceeds
\* max_iterations, the iteration counter only increases, and, given that
\* every invocation of the assistant returns or times out, the engine
\* always terminates.
C25_BoundedTermination ==
    /\ [](eng[1].pc \in {"loop", "finish"} =>
             /\ eng[1].attempted <= cfg.max_iterations
             /\ Attempted = eng[1].attempted)
    /\ [][(eng[1].pc = "loop" /\ eng'[1].pc \in {"loop", "finish"}) =>
             /\ eng'[1].iteration >= eng[1].iteration
             /\ eng'[1].attempted >= eng[1].attempted]_vars
    /\ <>(eng[1].pc = "exited")

\* the worker attempted as many iterations as it may and ran to its end
C25_Witness ==
    /\ WorkerExited
    /\ cfg.max_iterations = MaxIterations + 1
    /\ Attempted = cfg.max_iterations

\* the worker process ended by itself: it left at a startup check, or it
\* ran to the end of main
EndedByItself ==
    /\ eng[1].pc = "exited"
    /\ ~hist.started \/ eng[1].rc = 0

\* C26: every run of the engine that has its required environment writes
\* <output>/<id>.status, holding its final status tag, before it exits,
\* whichever way the run ended (startup check failure, complete signal, hard
\* stop, iteration cap, budget guard), in both modes.
C26_FinalStatusFile ==
    EndedByItself =>
        /\ work["a"].status # <<>>
        /\ StatusFile \in {"done", "failed", "stopped_rate_limit",
                           "stopped_context_limit", "stopped_iteration_cap"}

\* C27: before each iteration, if max_seconds minus the elapsed seconds is
\* <= soft_stop_margin_seconds, no further iteration is started and the
\* engine ends with status stopped_rate_limit and reason soft_budget_guard;
\* an iteration is only ever started in a state where the remaining budget
\* exceeds the margin.
C27_BudgetGuard ==
    [][/\ (/\ eng[1].pc = "loop"
           /\ eng[1].iteration <= cfg.max_iterations
           /\ MaxSeconds - eng[1].elapsed <= SoftStopMargin
           /\ eng'[1].pc # "exited") =>
              /\ hist'.iters = hist.iters
              /\ eng'[1].pc = "finish"
              /\ eng'[1].status = "stopped_rate_limit"
              /\ eng'[1].stop_reason = "soft_budget_guard"
       /\ \A i \in DOMAIN hist'.iters :
              MaxSeconds - hist'.iters[i].at > SoftStopMargin
       /\ (hist.guard /\ eng[1].pc = "finish" /\ eng'[1].rc = 0) =>
              /\ Len(hist'.iters) = Len(hist.iters)
              /\ ReadWorkerStatus(work'["a"].status) = "stopped_rate_limit"
      ]_vars

\* the guard stopped a run after its first iteration, before the second,
\* and the worker wrote its status file
C27_Witness ==
    /\ hist.guard
    /\ Attempted = 1
    /\ cfg.max_iterations > 1
    /\ hist.iters[1].after.pc = "loop"
    /\ WorkerExited
    /\ StatusFile = "stopped_rate_limit"

(***************************************************************************)
(* SpecLogOrder: the combined log of the sink over the passes of           *)
(* sync_iter_logs while the logs iter-1, iter-2 and iter-10 appear and     *)
(* grow in any order.                                                      *)
(***************************************************************************)
InitLogOrder ==
    /\ LogIdle
    /\ HistIdle
    /\ CopyIdle
    /\ OrchIdle
    /\ TrigIdle
    /\ ResumeIdle

\* run_iteration opens the log of its iteration for writing (worker.py line
\* 192)
LogAppear(f) ==
    /\ lg_files[f].mode = "absent"
    /\ lg_files' = [lg_files EXCEPT ![f].mode = "ok"]
    /\ UNCHANGED <<synced_offsets, lg_last, combined, logrun, histVars,
                   copyVars, orchVars, trigVars, resumeVars>>

NextLogOrder ==
    \/ \E f \in LogFiles : LogAppear(f)
    \/ \E f \in LogFiles : LogGrow(f)
    \/ SyncIterLogs

SpecLogOrder == InitLogOrder /\ [][NextLogOrder]_vars

\* the lexicographic order of the three file names
StatedOrder == <<"iter-1.log", "iter-10.log", "iter-2.log">>

RankOf(f) == CHOOSE i \in DOMAIN StatedOrder : StatedOrder[i] = f

\* the segments of a sequence of file names are in lexicographic order
InStatedOrder(segs) ==
    \A i, j \in DOMAIN segs : i < j => RankOf(segs[i]) <= RankOf(segs[j])

RECURSIVE Flatten(_)
Flatten(passes) ==
    IF passes = <<>> THEN <<>> ELSE Head(passes) \o Flatten(Tail(passes))

\* C28 as stated: in the combined sink log the segments of the iteration
\* logs appear in lexicographic filename order (iter-1 before iter-10
\* before iter-2), whatever the sequence of sync passes over which the
\* files appeared and grew.
C28_CombinedLogOrdering == InStatedOrder(Flatten(combined))

\* C28, amended: the segments that one pass of sync_iter_logs appends are in
\* lexicographic filename order (iter-1 before iter-10 before iter-2), each
\* file at most once; the passes follow each other in the order in which
\* they ran.
C28_OrderWithinPass ==
    \A p \in DOMAIN combined :
        \A i, j \in DOMAIN combined[p] :
            i < j => RankOf(combined[p][i]) < RankOf(combined[p][j])

\* one pass appended all three logs, iter-10 before iter-2, and a later
\* pass appended what iter-1 had gained
C28_Witness ==
    /\ Len(combined) = 2
    /\ combined[1] = <<"iter-1.log", "iter-10.log", "iter-2.log">>
    /\ combined[2] = <<"iter-1.log">>

(***************************************************************************)
(* SpecCleanup: one loop, one archive, ungated, both worker modes, under   *)
(* each of the three values of KEEP_WORK_DIR.                              *)
(***************************************************************************)
KeepWorkDirs == {"always", "never", "on_failure"}

ConfigsCleanup ==
    {[ConfigIdle EXCEPT !.keep_work_dir = k, !.keep_failed_marker = f,
                        !.strict_single_zip = s, !.zip_chain_mode = z,
                        !.max_iterations = 1] :
        k \in KeepWorkDirs, f \in BOOLEAN, s \in BOOLEAN, z \in BOOLEAN}

InitCleanup ==
    /\ cfg \in ConfigsCleanup
    /\ input_dir = {"a"}
    /\ running = {}
    /\ done = {}
    /\ failed = {}
    /\ queue = {}
    /\ trig = FALSE
    /\ nc_output = {}
    /\ work = [j \in Stems |-> WorkAbsent]
    /\ loop = [l \in Loops |-> LoopIdle]
    /\ sup = [l \in Loops |-> SupIdle]
    /\ eng = [l \in Loops |-> EngIdle]
    /\ runs = 0
    /\ g_touched = FALSE
    /\ g_trigCreated = FALSE
    /\ TrigIdle
    /\ ResumeIdle
    /\ SideIdle

NextCleanup == LoopStep(1)

SpecCleanup == InitCleanup /\ [][NextCleanup]_vars

\* start_job has just returned its result to main
StartJobReturned ==
    /\ loop[1].pc \in {"release", "strict_after"}
    /\ loop[1].dispatched

\* C29: when start_job returns, on every exit path, the job work directory
\* still exists iff keep_work_dir is always, or keep_work_dir is on_failure
\* and the job failed; with never it is deleted whether the job succeeded or
\* failed, and with on_failure it is deleted on success.
C29_CleanupPolicy ==
    StartJobReturned =>
        (work[loop[1].job_id].exists <=>
            \/ cfg.keep_work_dir = "always"
            \/ cfg.keep_work_dir = "on_failure" /\ ~loop[1].success)

(***************************************************************************)
(* SpecCopy: two calls of atomic_copy(src, dst) in a row, for every        *)
(* content of src and every prior state of dst and of its .tmp sibling.    *)
(***************************************************************************)
Contents == {"hello", "old", "new"}

NoFile == "<absent>"

SrcPath == "src.txt"

\* a file name as pathlib splits it: the stem and the last suffix
DstNames ==
    {[stem |-> "dst", suffix |-> ".txt"], [stem |-> "a_v1", suffix |-> ".zip"],
     [stem |-> "a", suffix |-> ""]}

PathOf(name) == name.stem \o name.suffix

\* Path.with_suffix
with_suffix(name, suffix) == [name EXCEPT !.suffix = suffix]

\* line 287
TmpOf(name) == with_suffix(name, name.suffix \o ".tmp")

CopyPaths ==
    {SrcPath} \cup {PathOf(n) : n \in DstNames}
              \cup {PathOf(TmpOf(n)) : n \in DstNames}

DstOf(path) == CHOOSE n \in DstNames : PathOf(n) = path

InitCopy ==
    /\ \E n \in DstNames, c \in Contents, parent \in BOOLEAN,
          d, t \in Contents \cup {NoFile} :
        /\ ~parent => d = NoFile /\ t = NoFile
        /\ ac_pc = [pc |-> "call", calls |-> 0, dst |-> PathOf(n),
                    parent |-> parent]
        /\ fs = [p \in CopyPaths |->
                    IF p = SrcPath THEN c
                    ELSE IF p = PathOf(n) THEN d
                    ELSE IF p = PathOf(TmpOf(n)) THEN t
                    ELSE NoFile]
    /\ LogIdle
    /\ HistIdle
    /\ OrchIdle
    /\ TrigIdle
    /\ ResumeIdle

\* line 286: dst.parent.mkdir(parents=True, exist_ok=True)
AC_Mkdir ==
    /\ ac_pc.pc = "call"
    /\ ac_pc.calls < 2
    /\ ac_pc' = [ac_pc EXCEPT !.pc = "copy2", !.parent = TRUE]
    /\ UNCHANGED <<fs, logVars, histVars, orchVars, trigVars, resumeVars>>

\* line 288: shutil.copy2(src, tmp)
AC_Copy2 ==
    /\ ac_pc.pc = "copy2"
    /\ fs' = [fs EXCEPT ![PathOf(TmpOf(DstOf(ac_pc.dst)))] = fs[SrcPath]]
    /\ ac_pc' = [ac_pc EXCEPT !.pc = "rename"]
    /\ UNCHANGED <<logVars, histVars, orchVars, trigVars, resumeVars>>

RenameKeep(files, from, to) == [files EXCEPT ![to] = files[from]]

\* os.rename: the file is known under the new path only
Rename(files, from, to) ==
    [files EXCEPT ![to] = files[from], ![from] = NoFile]

\* line 289: tmp.rename(dst); the call returns
AC_Rename ==
    /\ ac_pc.pc = "rename"
    /\ fs' = Rename(fs, PathOf(TmpOf(DstOf(ac_pc.dst))), ac_pc.dst)
    /\ ac_pc' = [ac_pc EXCEPT !.pc = "call", !.calls = @ + 1]
    /\ UNCHANGED <<logVars, histVars, orchVars, trigVars, resumeVars>>

NextCopy ==
    \/ AC_Mkdir
    \/ AC_Copy2
    \/ AC_Rename

SpecCopy == InitCopy /\ [][NextCopy]_vars

\* C30: for every content of the source and every prior state of the
\* destination (absent, or present with other content), after
\* atomic_copy(s, d), and again after a second atomic_copy(s, d), d holds
\* exactly the content of s and no .tmp sibling of d remains.
C30_AtomicCopyIdempotent ==
    (ac_pc.pc = "call" /\ ac_pc.calls >= 1) =>
        /\ fs[ac_pc.dst] = fs[SrcPath]
        /\ fs[SrcPath] \in Contents
        /\ fs[ac_pc.dst \o ".tmp"] = NoFile
        /\ \A p \in CopyPaths \ {SrcPath, ac_pc.dst} : fs[p] = NoFile

\* the second call has returned, over a destination without suffix
C30_Witness ==
    /\ ac_pc.pc = "call"
    /\ ac_pc.calls = 2
    /\ ac_pc.dst = "a"
    /\ fs["a"] = "new"
    /\ fs["a.tmp"] = NoFile

(***************************************************************************)
(* Properties of start_job's steps (SpecCleanup).                          *)
(***************************************************************************)
\* C31: supervisor step order. running/<id> is created only after the input
\* archive has been staged into work_dir/<id>/input/input.zip: there is no
\* state in which running/<id> is present while the input is not staged.
C31_RunningAfterStaging == \A j \in Stems : j \in running => work[j].input

\* start_job returns from its copy-failure exit (line 504)
CopyFailureReturn ==
    /\ loop[1].pc = "sj_copy"
    /\ loop'[1].pc \in {"release", "strict_after"}

ClaimedAndRunning(j) ==
    /\ loop[1].pc = "claim_exists"
    /\ loop[1].job_id = j
    /\ j \in running

\* C33: claim with running marker present. Called for an id whose claim link
\* and running/<id> both exist, claim_job returns not-claimed and leaves the
\* claim link, the running marker and all other markers unchanged; from such
\* a state the loop never dispatches that job in any later tick (no outside
\* actor removing a marker).
C33_ClaimWithRunningMarker ==
    /\ [][\A j \in Stems : ClaimedAndRunning(j) =>
            /\ loop'[1].pc = "for"
            /\ loop'[1].idx = loop[1].idx + 1
            /\ UNCHANGED <<markerVars, queue, runs>>]_vars
    /\ \A j \in Stems :
        [](ClaimedAndRunning(j) =>
            [](/\ j \in running
               /\ j \in queue
               /\ ~(loop[1].job_id = j
                    /\ loop[1].pc \in {"dispatch", "start_job"})))

\* the second tick after the restart: b was run in the first, a is skipped
\* again
C33_Witness ==
    /\ loop[1].pc = "for"
    /\ loop[1].idx = 2
    /\ loop[1].job_id = "a"
    /\ "a" \in running
    /\ "a" \in queue
    /\ runs = 1
    /\ "b" \in done \cup failed

\* every finished archive and every *.status file of <work>/output of job j
\* is in the sink
SinkHasOutput(j) ==
    /\ \A f \in work[j].output : ~IsPartial(f) => f \in nc_output
    /\ work[j].status # <<>> => JName(j) \in nc_output

\* a step that creates a terminal marker or removes a running marker, the
\* copy-failure exit set aside
EmitStep ==
    /\ \/ ~(done' \subseteq done)
       \/ ~(failed' \subseteq failed)
       \/ running' # running /\ running' \subseteq running
    /\ ~CopyFailureReturn

\* a step that removes a work dir
CleanupStep == \E j \in Stems : work[j].exists /\ ~work'[j].exists

\* the run of loop 1 has emitted its terminal marker
OwnMarker ==
    /\ \/ loop[1].pc = "sj_finish"
       \/ loop[1].pc \in {"release", "strict_after"} /\ sup[1].reaped
    /\ loop[1].job_id \in done \cup failed

InitLogBytes ==
    /\ lg_files = [f \in LogFiles |-> [size |-> 0, mode |-> "absent"]]
    /\ synced_offsets = [f \in LogFiles |-> 0]
    /\ lg_last = [f \in LogFiles |-> LastIdle]
    /\ combined = <<>>
    /\ logrun = [phase |-> "running", ranges |-> [f \in LogFiles |-> <<>>]]
    /\ HistIdle
    /\ CopyIdle
    /\ OrchIdle
    /\ TrigIdle
    /\ ResumeIdle

\* the byte ranges after a pass: what the pass read of each file, from the
\* cursor it had (seek, line 344) to the end of the file at the read
RangesAfterPass ==
    [f \in LogFiles |->
        IF lg_last'[f].ran /\ lg_last'[f].appended > 0
        THEN Append(logrun.ranges[f],
                    <<lg_last'[f].prev,
                      lg_last'[f].prev + lg_last'[f].appended>>)
        ELSE logrun.ranges[f]]

\* run_iteration creates the log of an iteration and writes to it while the
\* container is alive
WorkerWrites ==
    /\ logrun.phase = "running"
    /\ \E f \in CursorLogs : LogAppear(f) \/ LogGrow(f)

\* the container exits (proc.poll() is not None, line 558)
WorkerExits ==
    /\ logrun.phase = "running"
    /\ logrun' = [logrun EXCEPT !.phase = "exited"]
    /\ UNCHANGED <<lg_files, synced_offsets, lg_last, combined, histVars,
                   copyVars, orchVars, trigVars, resumeVars>>

\* lines 568-572: the pass of one round of the poll loop
PollPass ==
    /\ logrun.phase = "running"
    /\ SyncIterLogsOn
    /\ logrun' = [logrun EXCEPT !.ranges = RangesAfterPass]

\* lines 597-601: the final pass, after the container exited; no file
\* changes any more
FinalPass ==
    /\ logrun.phase = "exited"
    /\ SyncIterLogsOn
    /\ lg_files' = lg_files
    /\ logrun' = [phase |-> "final", ranges |-> RangesAfterPass]

NextLogBytes ==
    \/ WorkerWrites
    \/ WorkerExits
    \/ PollPass
    \/ FinalPass

SpecLogBytes == InitLogBytes /\ [][NextLogBytes]_vars

\* the ranges are [0, a), [a, b), ... up to size: every byte once, in order
ExactlyOnce(ranges, size) ==
    /\ \A i \in DOMAIN ranges :
        ranges[i][1] = (IF i = 1 THEN 0 ELSE ranges[i - 1][2])
    /\ (IF ranges = <<>> THEN 0 ELSE ranges[Len(ranges)][2]) = size

\* C35: log bytes are synced exactly once. For an iteration log that the
\* container only appends to, concurrently with the sync passes, after the
\* final sync the combined log holds every byte of the file exactly once
\* and in source-offset order: no byte range is duplicated, none skipped.
C35_LogBytesExactlyOnce ==
    logrun.phase = "final" =>
        \A f \in LogFiles :
            ExactlyOnce(logrun.ranges[f], lg_files[f].size)

(***************************************************************************)
(* SpecEventual: one ungated, non-strict loop with the default settings    *)
(* (keep_failed_marker true, stop_loop_on_job_failure false, one job at a  *)
(* time) over a drop folder of one or two archives, no markers and no      *)
(* claim links at the start.                                               *)
(***************************************************************************)
ConfigsEventual ==
    {[ConfigIdle EXCEPT !.zip_chain_mode = z, !.max_iterations = 1] :
        z \in BOOLEAN}

DropFolders == {{"a"}, {"a", "b"}, {"a_v1", "b"}}

InitEventual ==
    /\ cfg \in ConfigsEventual
    /\ input_dir \in DropFolders
    /\ running = {}
    /\ done = {}
    /\ failed = {}
    /\ queue = {}
    /\ trig = FALSE
    /\ nc_output = {}
    /\ work = [j \in Stems |-> WorkAbsent]
    /\ loop = [l \in Loops |-> LoopIdle]
    /\ sup = [l \in Loops |-> SupIdle]
    /\ eng = [l \in Loops |-> EngIdle]
    /\ runs = 0
    /\ g_touched = FALSE
    /\ g_trigCreated = FALSE
    /\ TrigIdle
    /\ ResumeIdle
    /\ SideIdle

\* the steps of the non-strict loop, of its supervisor and of the container
NextEventual ==
    \/ TickGate(1)
    \/ TickCap(1)
    \/ ForNext(1)
    \/ ClaimSymlink(1)
    \/ Dispatch(1)
    \/ Release(1)
    \/ ReleaseRaise(1)
    \/ SJ_Touch(1)
    \/ SJ_Copy(1)
    \/ SJ_Poll(1)
    \/ SJ_Reap(1)
    \/ SJ_Unlink(1)
    \/ SJ_Mark(1)
    \/ SJ_Finish(1)
    \/ WorkerIteration(1)
    \/ WorkerFinish(1)
    \/ ContainerCrash(1)

SpecEventual == InitEventual /\ [][NextEventual]_vars

\* the loop, its supervisor and the container keep taking their steps
SpecEventualFair == SpecEventual /\ WF_vars(NextEventual)

\* the loop calls start_job for the archive at position idx of its listing
DispatchOf(idx) ==
    /\ loop[1].pc = "dispatch"
    /\ loop'[1].pc = "start_job"
    /\ loop[1].idx = idx

\* the rank of an archive's file name in lexicographic order
NamePos(z) == CHOOSE i \in DOMAIN ArchiveOrder : ArchiveOrder[i] = z

\* C36: eventual processing. Every archive present in the drop folder
\* eventually gets exactly one terminal marker (done/<id> or failed/<id>),
\* and within a tick the archives are dispatched in lexicographic filename
\* order.
C36_EventualProcessing ==
    /\ \A j \in Stems :
        (j \in input_dir) ~> (j \in done \cup failed)
    /\ [](done \cap failed = {})
    /\ [][\A idx \in DOMAIN loop[1].zips :
            DispatchOf(idx) =>
                /\ loop[1].job_id = loop[1].zips[idx]
                /\ \A k \in 1..(idx - 1) :
                       /\ loop[1].zips[k] \in done \cup failed
                       /\ NamePos(loop[1].zips[k]) <
                              NamePos(loop[1].zips[idx])]_vars

\* eventual processing, the runs that end in an uncaught launch error set
\* aside
EventualUnlessLaunchFails ==
    \A j \in Stems :
        (j \in input_dir) ~> (j \in done \cup failed \/ loop[1].pc = "crashed")

(***************************************************************************)
(* SpecHook: one supervisor run from the launch of its container to its    *)
(* return, the post-sync hook ending in each of its ways.                  *)
(***************************************************************************)
ConfigsHook ==
    {[ConfigIdle EXCEPT !.keep_work_dir = k, !.keep_failed_marker = f,
                        !.strict_single_zip = s, !.zip_chain_mode = z,
                        !.max_iterations = 1] :
        k \in KeepWorkDirs, f \in BOOLEAN, s \in BOOLEAN, z \in BOOLEAN}

InitHook ==
    /\ cfg \in ConfigsHook
    /\ input_dir = {"a"}
    /\ running = {"a"}
    /\ done = {}
    /\ failed = {}
    /\ queue = IF cfg.strict_single_zip THEN {} ELSE {"a"}
    /\ trig = FALSE
    /\ nc_output = {}
    /\ work = [j \in Stems |->
                  IF j = "a" THEN [WorkAbsent EXCEPT !.exists = TRUE,
                                                     !.input = TRUE]
                  ELSE WorkAbsent]
    /\ loop = [l \in Loops |->
                  IF l = 1
                  THEN [LoopIdle EXCEPT !.pc = "sj_poll", !.job_id = "a",
                                        !.zips = <<"a">>, !.idx = 1]
                  ELSE LoopIdle]
    /\ sup = [l \in Loops |-> SupIdle]
    /\ eng = [l \in Loops |->
                 IF l = 1
                 THEN [EngIdle EXCEPT !.pc = "loop", !.job_id = "a",
                                      !.iteration = 1, !.status = "done"]
                 ELSE EngIdle]
    /\ runs = 1
    /\ g_touched = FALSE
    /\ g_trigCreated = FALSE
    /\ TrigIdle
    /\ ResumeIdle
    /\ SideIdle

\* lines 668-685, the way the hook ended kept in hook
SJ_FinishHook ==
    \E h \in HookOutcomes : SJ_FinishOn(1, h) /\ hook' = h

NextHook ==
    \/ WorkerIteration(1)
    \/ WorkerFinish(1)
    \/ ContainerCrash(1)
    \/ SJ_Poll(1)
    \/ SJ_Reap(1)
    \/ SJ_Unlink(1)
    \/ SJ_Mark(1)
    \/ SJ_FinishHook

SpecHook == InitHook /\ [][NextHook]_vars

\* C37: post-sync hook isolation. The value returned by start_job and the
\* markers it leaves are the same whether the hook succeeds, exits nonzero,
\* times out or fails to start; a hook failure never raises out of
\* start_job and never prevents the work-dir cleanup.
C37_HookIsolation ==
    [][loop[1].pc = "sj_finish" =>
        LET ok == sup[1].rc = 0 /\ sup[1].worker_status # "failed"
        IN  /\ hook' \in HookOutcomes
            /\ loop'[1].pc \in {"release", "strict_after"}
            /\ loop'[1].success = ok
            /\ UNCHANGED <<markerVars, queue, nc_output>>
            /\ work'["a"].exists <=>
                   \/ cfg.keep_work_dir = "always"
                   \/ cfg.keep_work_dir = "on_failure" /\ ~ok]_vars

\* start_job returned failure after a hook that timed out; the work dir is
\* removed as KEEP_WORK_DIR=never asks
C37_Witness ==
    /\ hook = "timeout"
    /\ loop[1].pc \in {"release", "strict_after"}
    /\ ~loop[1].success
    /\ cfg.keep_work_dir = "never"
    /\ cfg.keep_failed_marker
    /\ "a" \in failed
    /\ ~work["a"].exists

(***************************************************************************)
(* Properties of repeated runs of one job (SpecCleanup).                   *)
(***************************************************************************)
\* the worker of loop 1 emits the checkpoint archive numbered n
Emits(n) ==
    /\ Len(eng'[1].emitted) = Len(eng[1].emitted) + 1
    /\ eng'[1].emitted[Len(eng'[1].emitted)] = n

\* C38: sink archives are never overwritten across runs. In zip-chain mode,
\* over the runs of one job id (resume in strict mode, retry after a failure
\* with keep_failed_marker false in non-strict mode), every archive
\* <id>_v<N>.zip a run emits has N greater than every N already in the sink
\* for that id.
C38_SinkNeverOverwritten ==
    [][\A n \in 1..(MaxRuns * MaxIterations + 1) :
          (cfg.zip_chain_mode /\ Emits(n)) =>
              \A m \in SinkVersions(eng[1].job_id) : n > m]_vars

\* the same for the strict mode alone
SinkNeverOverwrittenStrict ==
    [][\A n \in 1..(MaxRuns * MaxIterations + 1) :
          (cfg.zip_chain_mode /\ cfg.strict_single_zip /\ Emits(n)) =>
              \A m \in SinkVersions(eng[1].job_id) : n > m]_vars

(***************************************************************************)
(* SpecModes: the classic loop (engine 1) and the zip-chain loop (engine   *)
(* 2) run side by side under the same limits; every pass hands both the    *)
(* same outcome of the assistant's invocation, and an engine that has left *)
(* its loop waits for the other.                                           *)
(***************************************************************************)
ModeOf(l) == l = 2

ConfigsModes ==
    {[ConfigIdle EXCEPT !.max_iterations = m] : m \in 0..(MaxIterations + 1)}

\* worker.py lines 257-259 and 265-267 (zip-chain), 455-457 (classic): the
\* locals before the while loop
InitModes ==
    /\ cfg \in ConfigsModes
    /\ eng = [l \in Loops |->
                 [EngIdle EXCEPT !.pc = "loop", !.job_id = "a",
                                 !.iteration = 1, !.status = "done"]]
    /\ loop = [l \in Loops |-> LoopIdle]
    /\ input_dir = {}
    /\ running = {}
    /\ work = [j \in Stems |-> WorkAbsent]
    /\ done = {}
    /\ failed = {}
    /\ queue = {}
    /\ trig = FALSE
    /\ nc_output = {}
    /\ sup = [l \in Loops |-> SupIdle]
    /\ runs = 1
    /\ g_touched = FALSE
    /\ g_trigCreated = FALSE
    /\ TrigIdle
    /\ ResumeIdle
    /\ SideIdle

\* one pass of each loop that is still running, on the same outcome
ModesIteration ==
    /\ \E l \in Loops : eng[l].pc = "loop"
    /\ \E o \in Outcomes :
        eng' = [l \in Loops |->
                   IF eng[l].pc = "loop"
                   THEN LoopPass(ModeOf(l), eng[l], o)
                   ELSE eng[l]]
    /\ UNCHANGED <<cfg, input_dir, markerVars, queue, trig, nc_output, work,
                   loop, sup, runs, g_touched, g_trigCreated, trigVars,
                   resumeVars, sideVars>>

\* worker.py lines 419-422 and 527-579: both loops are over, each engine
\* settles the status and stop_reason it reports
ModesFinish ==
    /\ \A l \in Loops : eng[l].pc = "finish"
    /\ eng' = [l \in Loops |->
                  [AfterLoop(ModeOf(l), eng[l]) EXCEPT !.pc = "exited"]]
    /\ UNCHANGED <<cfg, input_dir, markerVars, queue, trig, nc_output, work,
                   loop, sup, runs, g_touched, g_trigCreated, trigVars,
                   resumeVars, sideVars>>

NextModes ==
    \/ ModesIteration
    \/ ModesFinish

SpecModes == InitModes /\ [][NextModes]_vars

\* C39: for the same limits and the same sequence of per-iteration outcomes
\* the classic mode and the zip-chain mode attempt the same number of
\* iterations and end with the same final status and stop_reason.
C39_ModesAgree ==
    (\A l \in Loops : eng[l].pc = "exited") =>
        /\ eng[1].attempted = eng[2].attempted
        /\ eng[1].status = eng[2].status
        /\ eng[1].stop_reason = eng[2].stop_reason

\* C40: in both modes and for every max_iterations >= 0 the final status is
\* done only if the log of some attempted iteration contained the
\* COMPLETE_SIGNAL token; a run that attempted no iteration never ends with
\* status done.
C40_DoneMeansSignalled ==
    (WorkerExited /\ StatusFile = "done") =>
        /\ Attempted > 0
        /\ \E i \in DOMAIN hist.iters : hist.iters[i].o.complete

\* the same with the zip-chain run that may attempt nothing set aside
DoneMeansSignalledUnlessEmptyChain ==
    (cfg.zip_chain_mode /\ cfg.max_iterations = 0) \/ C40_DoneMeansSignalled

=============================================================================
